---- MODULE Spec2Model ----
(***************************************************************************)
(* Verification model of the living-agents concurrency core:               *)
(*   - Orchestrator.run_conversation / handle_human_message and the        *)
(*     ConversationEngine.chat / end_conversation calls they make          *)
(*     (specification Spec),                                               *)
(*   - WorldRegistry.register / update_status (specification SpecRegistry),*)
(*   - MessageBus.send / receive / create_inbox / remove_inbox             *)
(*     (specification SpecBus), MessageBus.broadcast (SpecBroadcast) and   *)
(*     MessageBus.get_history (SpecHistory),                               *)
(*   - Orchestrator.autonomy_loop and Orchestrator.stop (SpecAutonomy),    *)
(*   - WorkingMemory.add_message / compress_if_needed (SpecWorking),       *)
(*   - EpisodicMemory.decay_memories and MemoryStore.daily_maintenance     *)
(*     (SpecEpisodic),                                                     *)
(*   - the belief methods of CharacterState (SpecCharacter),               *)
(*   - ReflectionEngine._apply_reflection (SpecReflection) and             *)
(*     ReflectionEngine.reflect with its parser (SpecReflect),             *)
(*   - ConversationEngine.chat / end_conversation / reset, call by call    *)
(*     (SpecEngine), and the retry loops of _call_claude (SpecGeneration), *)
(*   - EpisodicMemory.recall / recall_about / forget with the similarity   *)
(*     index (SpecRecall),                                                 *)
(*   - the messages of a run_conversation call (SpecDialogue), the API     *)
(*     called with unknown ids (SpecBoundary) and run_conversation under   *)
(*     fair scheduling (SpecRuns).                                         *)
(* Every task is an asyncio coroutine on one event loop: an action is the  *)
(* code a task runs between two suspension points (awaits that really      *)
(* yield: generation calls, durable-store accesses, sleeps).  The UI       *)
(* callbacks of _fire_conversation / _fire_event and a _compress_context   *)
(* below the compression threshold return without yielding.  A call frame  *)
(* that has returned or raised keeps no locals (FailedRun, HumanReturned). *)
(***************************************************************************)
EXTENDS Integers, Sequences, FiniteSets, TLC

(* ------------------------------ bounds --------------------------------- *)
\* number of run_conversation calls issued (each slot runs once)
MaxConvs == 2
\* largest max_turns argument passed to run_conversation
MaxTurnsArg == 3
\* number of handle_human_message calls issued
MaxHumanMsgs == 1
\* number of MessageBus.send calls issued
MaxSends == 2
\* number of send calls one broadcast is followed through (inboxes that are
\* removed and created again can prolong its loop without end)
MaxBroadcastSends == 3
\* largest limit argument passed to get_history
MaxLimit == 2
\* number of wake-ups the autonomy loops are followed through, all loops together
MaxCycles == 2
\* the cap of the working memory under test (WorkingMemory(max_tokens=...))
max_tokens == 10
\* number of add_message calls issued
MaxMessages == 6
\* a message has one word or MaxWords words
MaxWords == 3
\* a summary returned by the summarization call has 1..MaxSummaryWords words
MaxSummaryWords == 2

(* --------------------------- program constants ------------------------- *)
REFLECTION_THRESHOLD == 3
\* max_turns of the run_conversation call made for a talk_to decision
AUTONOMY_MAX_TURNS == 5
\* working.COMPRESSION_THRESHOLD = 0.8, in percent
COMPRESSION_THRESHOLD == 80

VALID_STATUSES ==
  {"online", "offline", "idle", "thinking", "in_conversation", "reflecting"}

(* ------------------------------ universes ------------------------------ *)
Agents == {"a1", "a2"}
HumanId == "h"
EntityIds == Agents \cup {HumanId}
None == "None"
Convs == 1..MaxConvs
Humans == 1..MaxHumanMsgs
Senders == 1..MaxSends
\* the entities whose mailboxes carry traffic in SpecBus: one agent and the human
BusIds == {"a1", HumanId}
\* what _make_autonomy_decision can return: the three commands of the prompt,
\* or any other text
Decisions == {"talk_to", "reflect", "idle", "unrecognised"}
\* status tokens callers may pass: the valid ones and one that is not
StatusTokens == VALID_STATUSES \cup {"bogus"}

VARIABLES
  entities,          \* WorldRegistry._entities: id -> [type, status, current_conversation_with]
  interrupt_events,  \* Orchestrator._interrupt_events: agent id -> Event (<<run, 1|2>>)
  ev,                \* the asyncio.Event objects interrupt1/interrupt2 of each run
  conv,              \* locals and position of each run_conversation call
  engine,            \* ConversationEngine.turn_count / _last_reflection_turn per agent
  human,             \* position of each handle_human_message call
  world_events,      \* world_events table (SharedWorldState.add_event)
  queues,            \* MessageBus._queues: entity id -> FIFO of messages
  messages_db,       \* messages table (durable log), in insertion order
  sender,            \* position of each MessageBus.send call
  enqueued,          \* per inbox: the messages queue.put enqueued, in order
  returned,          \* per inbox: the messages receive returned, in order
  receiver,          \* per entity: the receive(entity, timeout) call that is waiting
  recv_result,       \* what the receive call that returned last gave its caller
  inbox_order,       \* the keys of MessageBus._queues in dict (insertion) order
  bcast,             \* locals and position of the MessageBus.broadcast call
  history_result,    \* what the get_history call that returned last gave its caller
  running,           \* Orchestrator._running
  auto,              \* locals and position of each agent's autonomy_loop task
  stop,              \* position of the Orchestrator.stop call
  wm,                \* one WorkingMemory: messages, summary, token_count
  comp,              \* locals and position of the compress_if_needed call
  compress_result,   \* what the compress_if_needed call that returned last gave its caller
  now,               \* datetime.now(timezone.utc), in whole days since the start
  episodes,          \* episodes table of one agent: episode id -> row
  episodes_added,    \* number of add_episode calls so far (names the next row)
  decays,            \* number of decay_memories calls so far
  decay_rate,        \* the decay_rate argument of the latest decay_memories call
  maintenances,      \* number of daily_maintenance calls so far
  character,         \* agent.character: one CharacterState
  facts,             \* knowledge_facts table of the agent, in insertion order
  last_call,         \* the latest call made on the character or the reflection engine
  reflections,       \* number of reflection records applied so far
  reflecting,        \* locals and position of the ReflectionEngine.reflect call
  engine_log,        \* per engine: its latest call and the turns no reflection has covered
  generation,        \* locals, position and history of each _call_claude call
  api,               \* the latest call on the orchestrator's message/conversation API
  dialogue,          \* per run: current_message and the engine.chat requests issued
  collection,        \* EpisodicMemory._collection: the similarity index of the agent
  recall_result      \* what the latest recall / recall_about / important call returned

vars == <<entities, interrupt_events, ev, conv, engine, human, world_events,
          queues, messages_db, sender, enqueued, returned, receiver, recv_result,
          inbox_order, bcast, history_result, running, auto, stop,
          wm, comp, compress_result,
          now, episodes, episodes_added, decays, decay_rate, maintenances,
          character, facts, last_call, reflections, reflecting, engine_log,
          generation, api, dialogue, collection, recall_result>>

autoVars == <<running, auto, stop>>
wmVars == <<wm, comp, compress_result>>
orchVars_but_wm == <<interrupt_events, ev, conv, engine, human, world_events, autoVars>>
orchVars == <<interrupt_events, ev, conv, engine, human, world_events, autoVars, wmVars>>
memVars == <<now, episodes, episodes_added, decays, decay_rate, maintenances>>
\* the state of the components that are modelled on their own
charVars == <<character, facts, last_call, reflections, reflecting>>
engVars == <<engine_log>>
genVars == <<generation>>
apiVars == <<api, dialogue>>
recallVars == <<collection, recall_result>>
unitVars == <<memVars, charVars, engVars, genVars, apiVars, recallVars>>
busVars == <<queues, messages_db, sender, enqueued, returned, receiver, recv_result,
             inbox_order, bcast, history_result>>

(* ------------------------------ dict helpers --------------------------- *)
\* d[k] = v  on a Python dict
Put(d, k, v) == [x \in (DOMAIN d) \cup {k} |-> IF x = k THEN v ELSE d[x]]
\* d.pop(k, None)
Pop(d, k) == [x \in (DOMAIN d) \ {k} |-> d[x]]

(* ============================ WorldRegistry ============================ *)
\* WorldEntity as constructed by _register_entity / register_human
WorldEntity(type, status) ==
  [type |-> type, status |-> status, current_conversation_with |-> None]

\* WorldRegistry.register
register(reg, id, entity) == Put(reg, id, entity)

\* WorldRegistry.update_status: the status is assigned only when the token is
\* valid; current_conversation_with is assigned unconditionally
update_status(reg, id, status, conversation_with) ==
  IF id \notin DOMAIN reg THEN reg
  ELSE [reg EXCEPT ![id] =
          [@ EXCEPT !.status = IF status \in VALID_STATUSES THEN status ELSE @,
                    !.current_conversation_with = conversation_with]]

(* ========================= ConversationEngine ========================== *)
\* ConversationEngine.reset: turn_count = 0, _last_reflection_turn = 0
reset_engine == [turn_count |-> 0, last_reflection_turn |-> 0]

\* chat step 6: self.turn_count += 1 after the response arrived
chat_returned(e) == [e EXCEPT !.turn_count = @ + 1]

\* chat step 8: reflection threshold test
reflection_due(e) ==
  e.turn_count > 0 /\ e.turn_count % REFLECTION_THRESHOLD = 0

\* chat: self._last_reflection_turn = self.turn_count, after the awaited reflection
reflection_recorded(e) == [e EXCEPT !.last_reflection_turn = e.turn_count]

\* end_conversation: has_unreflected = turn_count > _last_reflection_turn
has_unreflected(e) == e.turn_count > e.last_reflection_turn

(* ============================ Orchestrator ============================= *)
\* the agent answering the current loop iteration (turn % 2 == 0: engine2);
\* inside the loop body turn == actual_turns
responder(r) == IF r.actual_turns % 2 = 0 THEN r.a2 ELSE r.a1

\* positions of a run that are inside the for loop of run_conversation
LoopPcs == {"turn", "chat_reflect"}
InLoop(c) == conv[c].pc \in LoopPcs

\* chat requests in flight for agent a (engine.chat entered, _call_claude not returned)
InFlight(a) ==
  Cardinality({c \in Convs : conv[c].pc = "turn" /\ responder(conv[c]) = a})
  + Cardinality({h \in Humans : human[h].pc = "call" /\ human[h].target = a})

\* mutant of interrupt_is_set: the check before each turn is left out
interrupt_is_set_never(flags) == FALSE

\* interrupt1.is_set() or interrupt2.is_set()
interrupt_is_set(flags) == flags[1] \/ flags[2]

\* mutant of end_reason: the turn budget is compared with <= instead of <
end_reason_le(interrupted, actual_turns, max_turns) ==
  IF interrupted THEN "interrupted"
  ELSE IF actual_turns <= max_turns THEN "natural"
  ELSE "limit"

\* end_reason of run_conversation
end_reason(interrupted, actual_turns, max_turns) ==
  IF interrupted THEN "interrupted"
  ELSE IF actual_turns < max_turns THEN "natural"
  ELSE "limit"

\* Event.set() on the event registered for agent a, if any
set_event(flags, events, a) ==
  IF a \in DOMAIN events
  THEN [flags EXCEPT ![events[a][1]][events[a][2]] = TRUE]
  ELSE flags

\* Orchestrator._interrupt_conversation: set the agent's event, then the event
\* of the partner the registry records for it
interrupt_conversation(flags, events, reg, a) ==
  LET own == set_event(flags, events, a)
      partner == IF a \in DOMAIN reg THEN reg[a].current_conversation_with ELSE None
  IN IF partner # None THEN set_event(own, events, partner) ELSE own

\* a run_conversation call that has not been issued yet
NoRun ==
  [pc |-> "init", a1 |-> "a1", a2 |-> "a2", max_turns |-> 0, actual_turns |-> 0,
   finished |-> FALSE, interrupted |-> FALSE, refl1 |-> "pending", refl2 |-> "pending"]

\* a run_conversation call that an exception has left: its locals are gone
FailedRun == [NoRun EXCEPT !.pc = "failed"]

\* the WorldEvent recorded by the teardown of run r (slot c)
conversation_event(c, r) ==
  [run |-> c, participants |-> <<r.a1, r.a2>>, turns |-> r.actual_turns,
   reason |-> end_reason(r.interrupted, r.actual_turns, r.max_turns)]

\* engine.end_conversation(): the forced reflection pass is triggered iff
\* the engine has unreflected turns
forced_reflection(e) == IF has_unreflected(e) THEN "ran" ELSE "skipped"

\* run_conversation from the return of engine.chat to the next suspension:
\* count the turn, leave the loop on the end marker, on range exhaustion or on
\* a set interrupt flag (checked before the next turn), else enter the next
\* engine.chat.  Leaving the loop pops both interrupt events and enters
\* engine1.end_conversation().  r is the run with `finished` of this turn,
\* eng the engines after the chat's own updates.
ContinueLoop(c, r, eng) ==
  LET n == r.actual_turns + 1
      exhausted == n >= r.max_turns
      intr == ~r.finished /\ ~exhausted /\ interrupt_is_set(ev[c])
  IN /\ engine' = eng
     /\ IF r.finished \/ exhausted \/ intr
        THEN /\ interrupt_events' = Pop(Pop(interrupt_events, r.a1), r.a2)
             /\ conv' = [conv EXCEPT ![c] =
                  [r EXCEPT !.pc = "end1", !.actual_turns = n, !.interrupted = intr,
                            !.refl1 = forced_reflection(eng[r.a1])]]
        ELSE /\ conv' = [conv EXCEPT ![c] = [r EXCEPT !.pc = "turn", !.actual_turns = n]]
             /\ UNCHANGED interrupt_events

\* Orchestrator.run_conversation, from the call to the first engine.chat:
\* reset both engines, register two fresh interrupt events, set both statuses,
\* then iteration 0 of the loop (the fresh flags are unset) enters engine2.chat
run_conversation_call(c, x, y, mt) ==
  /\ conv[c].pc = "init"
  /\ \A d \in Convs : d < c => conv[d].pc # "init"
  /\ x \in DOMAIN entities /\ y \in DOMAIN entities
  /\ engine' = [engine EXCEPT ![x] = reset_engine, ![y] = reset_engine]
  /\ ev' = [ev EXCEPT ![c] = <<FALSE, FALSE>>]
  /\ interrupt_events' = Put(Put(interrupt_events, x, <<c, 1>>), y, <<c, 2>>)
  /\ entities' = update_status(update_status(entities, x, "in_conversation", y),
                               y, "in_conversation", x)
  /\ conv' = [conv EXCEPT ![c] = [NoRun EXCEPT !.pc = "turn", !.a1 = x, !.a2 = y,
                                               !.max_turns = mt]]

\* run_conversation called from the UI (/talk command, _handle_talk_to_agent)
RunConversation(c, x, y, mt) ==
  /\ run_conversation_call(c, x, y, mt)
  /\ UNCHANGED <<unitVars, human, world_events, busVars, wmVars, autoVars>>

\* engine.chat returns a response to run_conversation; hasEnd: the response
\* contains CONVERSATION_END_SIGNAL
turn_return(c, hasEnd) ==
  /\ conv[c].pc = "turn"
  /\ LET a == responder(conv[c])
         eng == [engine EXCEPT ![a] = chat_returned(@)]
         r == [conv[c] EXCEPT !.finished = hasEnd]
     IN IF reflection_due(eng[a])
        THEN /\ engine' = eng
             /\ conv' = [conv EXCEPT ![c] = [r EXCEPT !.pc = "chat_reflect"]]
             /\ UNCHANGED interrupt_events
        ELSE ContinueLoop(c, r, eng)

\* the same step of a run whose messages are not followed
TurnReturn(c, hasEnd) ==
  /\ turn_return(c, hasEnd)
  /\ UNCHANGED <<unitVars, entities, ev, human, world_events, busVars, wmVars, autoVars>>

\* the threshold reflection awaited inside engine.chat completes
chat_reflect_done(c) ==
  /\ conv[c].pc = "chat_reflect"
  /\ LET a == responder(conv[c])
     IN ContinueLoop(c, conv[c], [engine EXCEPT ![a] = reflection_recorded(@)])

\* the same step of a run whose messages are not followed
ChatReflectDone(c) ==
  /\ chat_reflect_done(c)
  /\ UNCHANGED <<unitVars, entities, ev, human, world_events, busVars, wmVars, autoVars>>

\* _call_claude raises (retries exhausted or non-transient error): the
\* exception leaves run_conversation, which has no handler around the loop
TurnFail(c) ==
  /\ conv[c].pc = "turn"
  /\ conv' = [conv EXCEPT ![c] = FailedRun]
  /\ UNCHANGED <<unitVars, entities, interrupt_events, ev, engine, human, world_events, busVars, wmVars, autoVars>>

\* engine1.end_conversation() returns; engine2.end_conversation() is entered
End1Done(c) ==
  /\ conv[c].pc = "end1"
  /\ conv' = [conv EXCEPT ![c].pc = "end2",
                          ![c].refl2 = forced_reflection(engine[conv[c].a2])]
  /\ UNCHANGED <<unitVars, entities, interrupt_events, ev, engine, human, world_events, busVars, wmVars, autoVars>>

\* mutant of End2Done: the event is recorded without resetting the statuses
End2Done_keeps_status(c) ==
  /\ conv[c].pc = "end2"
  /\ conv' = [conv EXCEPT ![c].pc = "event"]
  /\ UNCHANGED <<unitVars, entities, interrupt_events, ev, engine, human, world_events, busVars, wmVars, autoVars>>

\* engine2.end_conversation() returns; both statuses are reset, then
\* shared_state.add_event is awaited
End2Done(c) ==
  /\ conv[c].pc = "end2"
  /\ entities' = update_status(update_status(entities, conv[c].a1, "idle", None),
                               conv[c].a2, "idle", None)
  /\ conv' = [conv EXCEPT ![c].pc = "event"]
  /\ UNCHANGED <<unitVars, interrupt_events, ev, engine, human, world_events, busVars, wmVars, autoVars>>

\* shared_state.add_event inserted the row; run_conversation returns
EventDone(c) ==
  /\ conv[c].pc = "event"
  /\ world_events' = Append(world_events, conversation_event(c, conv[c]))
  /\ conv' = [conv EXCEPT ![c].pc = "done"]
  /\ UNCHANGED <<unitVars, entities, interrupt_events, ev, engine, human, busVars, wmVars, autoVars>>

\* a durable-store write of the teardown raises (conversation record or event)
TeardownFail(c) ==
  /\ conv[c].pc \in {"end1", "end2", "event"}
  /\ conv' = [conv EXCEPT ![c] = FailedRun]
  /\ UNCHANGED <<unitVars, entities, interrupt_events, ev, engine, human, world_events, busVars, wmVars, autoVars>>

\* a handle_human_message call that has returned or raised: its locals are gone
HumanReturned == [pc |-> "done", target |-> "a1"]

\* Orchestrator.handle_human_message up to its first suspension: interrupt and
\* sleep when the target has a registered event, else enter engine.chat
HumanMessage(h, t) ==
  /\ human[h].pc = "init"
  /\ t \in DOMAIN entities
  /\ IF t \in DOMAIN interrupt_events
     THEN /\ ev' = interrupt_conversation(ev, interrupt_events, entities, t)
          /\ human' = [human EXCEPT ![h] = [pc |-> "sleep", target |-> t]]
     ELSE /\ human' = [human EXCEPT ![h] = [pc |-> "call", target |-> t]]
          /\ UNCHANGED ev
  /\ UNCHANGED <<unitVars, entities, interrupt_events, conv, engine, world_events, busVars, wmVars, autoVars>>

\* mutant of HumanChatStart: the delivery waits until the target's run has
\* released its interrupt event
HumanChatStart_waits(h) ==
  /\ human[h].pc = "sleep"
  /\ human[h].target \notin DOMAIN interrupt_events
  /\ human' = [human EXCEPT ![h].pc = "call"]
  /\ UNCHANGED <<unitVars, entities, interrupt_events, ev, conv, engine, world_events, busVars, wmVars, autoVars>>

\* asyncio.sleep(0.3) is over: engine.chat is entered
HumanChatStart(h) ==
  /\ human[h].pc = "sleep"
  /\ human' = [human EXCEPT ![h].pc = "call"]
  /\ UNCHANGED <<unitVars, entities, interrupt_events, ev, conv, engine, world_events, busVars, wmVars, autoVars>>

\* engine.chat got the response for the human
HumanReturn(h) ==
  /\ human[h].pc = "call"
  /\ LET a == human[h].target
         e == chat_returned(engine[a])
     IN /\ engine' = [engine EXCEPT ![a] = e]
        /\ human' = [human EXCEPT ![h] = IF reflection_due(e) THEN [@ EXCEPT !.pc = "chat_reflect"]
                                         ELSE HumanReturned]
  /\ UNCHANGED <<unitVars, entities, interrupt_events, ev, conv, world_events, busVars, wmVars, autoVars>>

\* the threshold reflection awaited inside the human's engine.chat completes
HumanReflectDone(h) ==
  /\ human[h].pc = "chat_reflect"
  /\ engine' = [engine EXCEPT ![human[h].target] = reflection_recorded(@)]
  /\ human' = [human EXCEPT ![h] = HumanReturned]
  /\ UNCHANGED <<unitVars, entities, interrupt_events, ev, conv, world_events, busVars, wmVars, autoVars>>

\* _call_claude raises inside the human's engine.chat
HumanFail(h) ==
  /\ human[h].pc = "call"
  /\ human' = [human EXCEPT ![h] = HumanReturned]
  /\ UNCHANGED <<unitVars, entities, interrupt_events, ev, conv, engine, world_events, busVars, wmVars, autoVars>>

\* the /stop command of the participant UI: set every registered event
StopCommand ==
  /\ DOMAIN interrupt_events # {}
  /\ ev' = [c \in Convs |-> [i \in 1..2 |->
              ev[c][i] \/ \E a \in DOMAIN interrupt_events : interrupt_events[a] = <<c, i>>]]
  /\ ev' # ev
  /\ UNCHANGED <<unitVars, entities, interrupt_events, conv, engine, human, world_events, busVars, wmVars, autoVars>>

\* state after Orchestrator.start with both agents loaded and the human registered
\* an autonomy_loop task asleep between two cycles (n wake-ups so far; skipped:
\* the last wake-up skipped its cycle; touched: a run_conversation call has had
\* the agent as participant during the current cycle)
Asleep(n) ==
  [pc |-> "sleep", cycles |-> n, skipped |-> FALSE, decision |-> None,
   target |-> None, run |-> 0, touched |-> FALSE]

(* ============================ WorkingMemory ============================ *)
\* WorkingMemory.estimate_tokens of a text of `words` words: int(words * 1.3)
estimate_tokens(words) == (words * 13) \div 10

\* the words of the rolling summary: its parts are joined by blank lines
RECURSIVE summary_words(_)
summary_words(summary) ==
  IF summary = <<>> THEN 0 ELSE Head(summary).words + summary_words(Tail(summary))

\* sum(estimate_tokens(m["content"]) for m in messages)
RECURSIVE messages_tokens(_)
messages_tokens(messages) ==
  IF messages = <<>> THEN 0
  ELSE estimate_tokens(Head(messages).words) + messages_tokens(Tail(messages))

\* mutant of recomputed_tokens: the rolling summary is left out of the estimate
recomputed_tokens_messages_only(summary, messages) == messages_tokens(messages)

\* the token estimate compress_if_needed recomputes: the summary as one text
\* plus every remaining message
recomputed_tokens(summary, messages) ==
  estimate_tokens(summary_words(summary)) + messages_tokens(messages)

\* compress_if_needed's first test: token_count < max_tokens * COMPRESSION_THRESHOLD
below_threshold(w) == w.token_count * 100 < max_tokens * COMPRESSION_THRESHOLD

\* no compress_if_needed call is under way
NoCompress == [pc |-> "idle", to_compress |-> <<>>, remaining |-> <<>>]

\* WorkingMemory.__init__; no compress_if_needed call has returned
InitWorking ==
  /\ wm = [messages |-> <<>>, summary |-> <<>>, token_count |-> 0, added |-> 0]
  /\ comp = NoCompress
  /\ compress_result = "none_yet"

\* WorkingMemory.add_message with a content of w words (added: the number of
\* add_message calls so far, which identifies the message)
AddMessage(w) ==
  /\ wm.added < MaxMessages
  /\ wm' = [wm EXCEPT !.messages = Append(@, [id |-> wm.added + 1, words |-> w]),
                      !.token_count = @ + estimate_tokens(w),
                      !.added = @ + 1]
  /\ UNCHANGED <<unitVars, entities, orchVars_but_wm, busVars, comp, compress_result>>

\* WorkingMemory.clear
Clear ==
  /\ wm' = [wm EXCEPT !.messages = <<>>, !.summary = <<>>, !.token_count = 0]
  /\ UNCHANGED <<unitVars, entities, orchVars_but_wm, busVars, comp, compress_result>>

\* compress_if_needed returns False at once: below the threshold, or fewer
\* than 4 messages
CompressSkip ==
  /\ comp.pc = "idle"
  /\ below_threshold(wm) \/ Len(wm.messages) < 4
  /\ compress_result' = IF below_threshold(wm) THEN "false_below" ELSE "false_few"
  /\ UNCHANGED <<unitVars, entities, orchVars_but_wm, busVars, wm, comp>>

\* compress_if_needed passes both tests: it splits the buffer at len // 2 and
\* awaits claude_client(prompt) with the older half
CompressStart ==
  /\ comp.pc = "idle"
  /\ ~below_threshold(wm) /\ Len(wm.messages) >= 4
  /\ LET split_point == Len(wm.messages) \div 2
     IN comp' = [pc |-> "summarizing",
                 to_compress |-> SubSeq(wm.messages, 1, split_point),
                 remaining |-> SubSeq(wm.messages, split_point + 1, Len(wm.messages))]
  /\ UNCHANGED <<unitVars, entities, orchVars_but_wm, busVars, wm, compress_result>>

\* claude_client returns a summary of w words: it is joined to the rolling
\* summary, messages becomes the `remaining` taken before the await, and the
\* token count is recomputed; return True
CompressDone(w) ==
  /\ comp.pc = "summarizing"
  /\ LET summary == Append(wm.summary, [of |-> comp.to_compress, words |-> w])
     IN wm' = [wm EXCEPT !.summary = summary,
                         !.messages = comp.remaining,
                         !.token_count = recomputed_tokens(summary, comp.remaining)]
  /\ comp' = NoCompress
  /\ compress_result' = "true"
  /\ UNCHANGED <<unitVars, entities, orchVars_but_wm, busVars>>

\* mutant of CompressFail: the older half is dropped although nothing was summarized
CompressFail_drops ==
  /\ comp.pc = "summarizing"
  /\ wm' = [wm EXCEPT !.messages = comp.remaining]
  /\ comp' = NoCompress
  /\ compress_result' = "false_failed"
  /\ UNCHANGED <<unitVars, entities, orchVars_but_wm, busVars>>

\* claude_client raises: the warning is logged; return False
CompressFail ==
  /\ comp.pc = "summarizing"
  /\ comp' = NoCompress
  /\ compress_result' = "false_failed"
  /\ UNCHANGED <<unitVars, entities, orchVars_but_wm, busVars, wm>>

NextWorking ==
  \/ \E w \in {1, MaxWords} : AddMessage(w)
  \/ Clear
  \/ CompressSkip
  \/ CompressStart
  \/ \E w \in 1..MaxSummaryWords : CompressDone(w)
  \/ CompressFail

(* =========================== autonomy loops ============================ *)
\* mutant of busy: the loop never skips a cycle
busy_never(ents, a) == FALSE

\* autonomy_loop's skip test: the agent is registered and in_conversation
busy(ents, a) == a \in DOMAIN ents /\ ents[a].status = "in_conversation"

\* the finally block of a cycle: back to idle only from thinking
cycle_finally(ents, a) ==
  IF a \in DOMAIN ents /\ ents[a].status = "thinking"
  THEN update_status(ents, a, "idle", None) ELSE ents

\* agent a is a participant of a run_conversation call that is under way
InRun(a) ==
  \E c \in Convs : conv[c].pc \in {"turn", "chat_reflect", "end1", "end2", "event"}
                    /\ a \in {conv[c].a1, conv[c].a2}

\* the loop is inside the try block of a cycle (suspended at one of its awaits)
InCycle(a) == auto[a].pc \in {"decide", "opening", "conversing", "reflect", "reflect_event"}

\* the run_conversation call of a's cycle has returned or raised and the loop
\* has not yet been resumed with the outcome
Resuming(a) == auto[a].pc = "conversing" /\ conv[auto[a].run].pc \in {"done", "failed"}

\* the wake-ups the loops of the agents in S have had so far
RECURSIVE WakeUps(_)
WakeUps(S) ==
  IF S = {} THEN 0
  ELSE LET a == CHOOSE x \in S : TRUE IN auto[a].cycles + WakeUps(S \ {a})

\* the WorldEvent recorded after a reflect decision
reflection_event(a) ==
  [run |-> 0, participants |-> <<a>>, turns |-> 0, reason |-> "reflection"]

\* autonomy_loop: asyncio.sleep(AUTONOMY_INTERVAL) is over.  A busy agent skips
\* the cycle and sleeps again; otherwise the status becomes thinking and
\* _make_autonomy_decision awaits the generator
Wake(a) ==
  /\ running
  /\ auto[a].pc = "sleep"
  /\ WakeUps(Agents) < MaxCycles
  /\ IF busy(entities, a)
     THEN /\ auto' = [auto EXCEPT ![a] = [Asleep(@.cycles + 1) EXCEPT !.skipped = TRUE]]
          /\ UNCHANGED entities
     ELSE /\ entities' = update_status(entities, a, "thinking", None)
          /\ auto' = [auto EXCEPT ![a] =
               [Asleep(@.cycles + 1) EXCEPT !.pc = "decide", !.touched = InRun(a)]]
  /\ UNCHANGED <<unitVars, interrupt_events, ev, conv, engine, human, world_events, busVars, wmVars,
                 running, stop>>

\* _make_autonomy_decision returns d (an exception of the generator counts as
\* idle) and _execute_autonomy_decision runs up to its first await: a talk_to
\* with a known target awaits the opening message, a reflect sets the status
\* reflecting and awaits the reflection (hasMsgs: working memory holds messages)
\* or the event insert, anything else ends the cycle
Decide(a, d, t, hasMsgs) ==
  /\ auto[a].pc = "decide"
  /\ IF d = "talk_to" /\ t \in Agents
     THEN /\ auto' = [auto EXCEPT ![a].pc = "opening", ![a].decision = d, ![a].target = t]
          /\ UNCHANGED entities
     ELSE IF d = "reflect"
     THEN /\ entities' = update_status(entities, a, "reflecting", None)
          /\ auto' = [auto EXCEPT ![a].pc = IF hasMsgs THEN "reflect" ELSE "reflect_event",
                                  ![a].decision = d]
     ELSE /\ entities' = cycle_finally(entities, a)
          /\ auto' = [auto EXCEPT ![a] = Asleep(@.cycles)]
  /\ UNCHANGED <<unitVars, interrupt_events, ev, conv, engine, human, world_events, busVars, wmVars,
                 running, stop>>

\* the opening message is there (generated, or the default after an exception):
\* run_conversation(agent_id, target_id, opening, max_turns=5) is called
OpeningDone(a, c) ==
  /\ auto[a].pc = "opening"
  /\ run_conversation_call(c, a, auto[a].target, AUTONOMY_MAX_TURNS)
  /\ auto' = [b \in Agents |->
       IF b = a THEN [auto[a] EXCEPT !.pc = "conversing", !.run = c, !.touched = TRUE]
       ELSE IF b = auto[a].target THEN [auto[b] EXCEPT !.touched = InCycle(b)]
       ELSE auto[b]]
  /\ UNCHANGED <<unitVars, human, world_events, busVars, wmVars, running, stop>>

\* run_conversation returned or raised (except Exception logs it); the finally
\* block runs and the loop sleeps again
ConversationReturned(a) ==
  /\ Resuming(a)
  /\ entities' = cycle_finally(entities, a)
  /\ auto' = [auto EXCEPT ![a] = Asleep(@.cycles)]
  /\ UNCHANGED <<unitVars, interrupt_events, ev, conv, engine, human, world_events, busVars, wmVars,
                 running, stop>>

\* reflection_engine.reflect returned: shared_state.add_event is awaited
ReflectDone(a) ==
  /\ auto[a].pc = "reflect"
  /\ auto' = [auto EXCEPT ![a].pc = "reflect_event"]
  /\ UNCHANGED <<unitVars, entities, interrupt_events, ev, conv, engine, human, world_events,
                 busVars, wmVars, running, stop>>

\* reflect or add_event raises: except Exception logs it, the finally block runs
ReflectFail(a) ==
  /\ auto[a].pc \in {"reflect", "reflect_event"}
  /\ entities' = cycle_finally(entities, a)
  /\ auto' = [auto EXCEPT ![a] = Asleep(@.cycles)]
  /\ UNCHANGED <<unitVars, interrupt_events, ev, conv, engine, human, world_events, busVars, wmVars,
                 running, stop>>

\* add_event inserted the reflection event; the finally block runs and the loop
\* sleeps again
ReflectEventDone(a) ==
  /\ auto[a].pc = "reflect_event"
  /\ world_events' = Append(world_events, reflection_event(a))
  /\ entities' = cycle_finally(entities, a)
  /\ auto' = [auto EXCEPT ![a] = Asleep(@.cycles)]
  /\ UNCHANGED <<unitVars, interrupt_events, ev, conv, engine, human, busVars, wmVars, running, stop>>

\* task.cancel() on a's autonomy task: CancelledError is raised at the await
\* the task is suspended in.  It is no Exception, so no handler catches it:
\* inside the try block the finally block runs, then the task ends
cancelled_entities ==
  [id \in DOMAIN entities |->
     IF id \in Agents /\ InCycle(id) /\ ~Resuming(id)
     THEN cycle_finally(entities, id)[id] ELSE entities[id]]

\* a run_conversation call awaited by a cancelled task is left by the
\* CancelledError wherever it is suspended; nothing of its teardown runs
cancelled_runs ==
  [c \in Convs |->
     IF \E a \in Agents : auto[a].pc = "conversing" /\ auto[a].run = c
                           /\ conv[c].pc \notin {"done", "failed"}
     THEN FailedRun ELSE conv[c]]

\* an autonomy task that has ended because it was cancelled
Cancelled(n) == [Asleep(n) EXCEPT !.pc = "cancelled"]

\* Orchestrator.stop() up to its first await: clear _running and cancel every
\* autonomy task, then await their gather.  (A task that is being resumed with
\* the outcome of its run_conversation call is in the middle of a step; stop()
\* is called by another task, hence not at that moment.)
StopCall ==
  /\ stop = "init"
  /\ \A a \in Agents : ~Resuming(a)
  /\ running' = FALSE
  /\ entities' = cancelled_entities
  /\ conv' = cancelled_runs
  /\ auto' = [a \in Agents |-> Cancelled(auto[a].cycles)]
  /\ stop' = "gather"
  /\ UNCHANGED <<unitVars, interrupt_events, ev, engine, human, world_events, busVars, wmVars>>

\* gather returned: every autonomy task has ended; _autonomy_tasks is cleared
\* and engine.end_conversation() is awaited for every engine
StopGathered ==
  /\ stop = "gather"
  /\ \A a \in Agents : auto[a].pc = "cancelled"
  /\ stop' = "ending"
  /\ UNCHANGED <<unitVars, entities, interrupt_events, ev, conv, engine, human, world_events,
                 busVars, wmVars, running, auto>>

\* the end_conversation calls (exceptions logged) and _save_all_agents are
\* over: stop() returns
StopReturn ==
  /\ stop = "ending"
  /\ stop' = "stopped"
  /\ UNCHANGED <<unitVars, entities, interrupt_events, ev, conv, engine, human, world_events,
                 busVars, wmVars, running, auto>>

\* Orchestrator.start() has set _running and the UI has started one autonomy
\* loop per agent; stop() has not been called.  The working memory is as
\* constructed
InitAuto ==
  /\ running = TRUE
  /\ auto = [a \in Agents |-> Asleep(0)]
  /\ stop = "init"
  /\ InitWorking

(* ============================ EpisodicMemory =========================== *)
\* Importance values are in thousandths (1000 is 1.0), instants in whole days,
\* decay rates in thousandths per day.  The rates are even, so that a rate
\* halved by the emotion modifier 0.5 is a whole number of thousandths.

\* number of add_episode calls issued
MaxEpisodes == 2
\* number of decay_memories calls issued, alone or inside daily_maintenance
MaxDecays == 2
\* the instants at which the clock is read: the archive age and a day around it
Instants == {0, 1, 89, 90, 91}
\* importance arguments, around the archive threshold and at both ends of [0, 1]
Importances == {0, 99, 100, 500, 1000}
\* decay_rate arguments: none, a slow one and the default 0.01
Rates == {0, 2, 10}
\* emotional tones: one of the intense set and one outside it
Tones == {"joy", "neutral"}

INTENSE_EMOTIONS == {"anger", "fear", "excitement", "surprise", "awe", "sadness", "joy"}
ARCHIVE_AGE_DAYS == 90
\* store.ARCHIVE_IMPORTANCE_THRESHOLD = 0.1
ARCHIVE_IMPORTANCE_THRESHOLD == 100

Max(a, b) == IF a >= b THEN a ELSE b
Min(a, b) == IF a <= b THEN a ELSE b

\* Episode(...) as its creators build it: the timestamp is the default
\* (now), importance and current_importance get the same value; a summary is
\* a sequence of words
Episode(ts, summary, tone, imp, tags) ==
  [timestamp |-> ts, participants |-> <<>>, summary |-> summary, emotional_tone |-> tone,
   importance |-> imp, current_importance |-> imp, tags |-> tags]

\* decay_memories: days_elapsed = max((now - ts).total_seconds() / 86400, 0)
days_elapsed(t, ts) == Max(t - ts, 0)

\* decay_memories: 0.5 for an intense tone, else 1.0; in halves
emotion_modifier(tone) == IF tone \in INTENSE_EMOTIONS THEN 1 ELSE 2

\* decay_memories without the floor at 0.0
new_importance_unclamped(row, rate, t) ==
  row.current_importance
    - (rate * days_elapsed(t, row.timestamp) * emotion_modifier(row.emotional_tone)) \div 2

\* decay_memories: new_importance of one row
new_importance(row, rate, t) ==
  Max(0, row.current_importance
           - (rate * days_elapsed(t, row.timestamp)
                   * emotion_modifier(row.emotional_tone)) \div 2)

\* decay_memories: the UPDATE of every row of the agent
decay_rows(rows, rate, t) ==
  [id \in DOMAIN rows |->
     [rows[id] EXCEPT !.current_importance = new_importance(rows[id], rate, t)]]

\* get_important_memories: the rows with current_importance >= threshold
get_important_memories(rows, threshold) ==
  {id \in DOMAIN rows : rows[id].current_importance >= threshold}

\* daily_maintenance with either condition enough to archive
archivable_either(row, cutoff) ==
  row.current_importance < ARCHIVE_IMPORTANCE_THRESHOLD \/ row.timestamp < cutoff

\* daily_maintenance: the test that archives an episode
archivable(row, cutoff) ==
  row.current_importance < ARCHIVE_IMPORTANCE_THRESHOLD /\ row.timestamp < cutoff

\* EpisodicMemory.forget for each id of a set: DELETE FROM episodes
forget(rows, ids) == [id \in DOMAIN rows \ ids |-> rows[id]]

\* an EpisodicMemory whose init() has not run: _collection is None
NoCollection == [open |-> FALSE, ids |-> {}]

\* add_episode: _collection.add(ids=[episode_id]) if the collection exists
collection_add(col, id) == IF col.open THEN [col EXCEPT !.ids = @ \cup {id}] ELSE col

\* forget: _collection.delete(ids=[episode_id]) for the ids it succeeds on
collection_delete(col, ids) == IF col.open THEN [col EXCEPT !.ids = @ \ ids] ELSE col

\* no call on the recall interface has returned
NoRecall == [calls |-> 0, op |-> "none", pc |-> "done", arg |-> 0, queried |-> {}, ids |-> {}]

\* EpisodicMemory.add_episode: INSERT INTO episodes, then the index entry
add_episode(episode) ==
  /\ episodes_added' = episodes_added + 1
  /\ episodes' = Put(episodes, episodes_added + 1, episode)
  /\ collection' = collection_add(collection, episodes_added + 1)

InitMemory ==
  /\ collection = NoCollection
  /\ recall_result = NoRecall
  /\ now = 0
  /\ episodes = <<>>
  /\ episodes_added = 0
  /\ decays = 0
  /\ decay_rate = 0
  /\ maintenances = 0

\* the clock moves on to a later instant
Tick(t) ==
  /\ t > now
  /\ now' = t
  /\ UNCHANGED <<entities, orchVars, busVars, apiVars, recallVars, genVars, engVars, charVars, episodes, episodes_added, decays,
                 decay_rate, maintenances>>

\* EpisodicMemory.add_episode (MemoryStore.save_episode) of a new Episode
AddEpisode(tone, imp) ==
  /\ episodes_added < MaxEpisodes
  /\ add_episode(Episode(now, <<"awakening">>, tone, imp, <<>>))
  /\ UNCHANGED <<entities, orchVars, busVars, apiVars, recall_result, genVars, engVars, charVars, now, decays, decay_rate, maintenances>>

\* EpisodicMemory.decay_memories(decay_rate)
DecayMemories(rate) ==
  /\ decays < MaxDecays
  /\ decays' = decays + 1
  /\ decay_rate' = rate
  /\ episodes' = decay_rows(episodes, rate, now)
  /\ UNCHANGED <<entities, orchVars, busVars, apiVars, recallVars, genVars, engVars, charVars, now, episodes_added, maintenances>>

\* MemoryStore.daily_maintenance(decay_rate): decay, then forget the archivable
\* episodes among get_important_memories(threshold=0.0)
DailyMaintenance(rate) ==
  /\ decays < MaxDecays
  /\ decays' = decays + 1
  /\ decay_rate' = rate
  /\ maintenances' = maintenances + 1
  /\ LET decayed == decay_rows(episodes, rate, now)
         cutoff == now - ARCHIVE_AGE_DAYS
         low_importance == get_important_memories(decayed, 0)
         gone == {id \in low_importance : archivable(decayed[id], cutoff)}
     IN /\ episodes' = forget(decayed, gone)
        /\ \E failed \in SUBSET gone :
             collection' = collection_delete(collection, gone \ failed)
  /\ UNCHANGED <<entities, orchVars, busVars, apiVars, recall_result, genVars, engVars, charVars, now, episodes_added>>

(* ------------------ recall, recall_about, forget ---------------------- *)
\* number of calls on the recall interface that are followed
MaxRecallCalls == 3
\* the n of recall(query, n) and recall_about(entity_id, n)
Ns == 1..MaxEpisodes
\* the participants lists episodes are saved with
ParticipantLists == {<<>>, <<"Luna">>}

\* _collection.query(n_results = min(n, count)): some min(n, count) entries of
\* the index, whichever the embedding ranks nearest to the query
query_results(col, n) ==
  {S \in SUBSET col.ids : Cardinality(S) = Min(n, Cardinality(col.ids))}

\* _fetch_episodes_by_ids returning whatever the index named
_fetch_episodes_by_index(rows, episode_ids) == episode_ids

\* _fetch_episodes_by_ids: SELECT ... WHERE episode_id IN (ids)
_fetch_episodes_by_ids(rows, episode_ids) == {id \in episode_ids : id \in DOMAIN rows}

\* recall_about: the rows whose participants hold the entity, ORDER BY
\* current_importance DESC LIMIT n (rows of equal importance in any order)
recall_about(rows, entity_id, n) ==
  LET about == {id \in DOMAIN rows :
                  \E i \in 1..Len(rows[id].participants) : rows[id].participants[i] = entity_id}
  IN {S \in SUBSET about :
        /\ Cardinality(S) = Min(n, Cardinality(about))
        /\ \A x \in S, y \in about \ S :
             rows[x].current_importance >= rows[y].current_importance}

\* EpisodicMemory.init: get_or_create_collection
InitCollection ==
  /\ ~collection.open
  /\ collection' = [collection EXCEPT !.open = TRUE]
  /\ UNCHANGED <<entities, orchVars, busVars, apiVars, genVars, engVars, charVars, memVars,
                 recall_result>>

\* add_episode of an episode with the given participants
SaveEpisode(participants, imp) ==
  /\ episodes_added < MaxEpisodes
  /\ add_episode([Episode(now, <<"chat">>, "neutral", imp, <<>>)
                    EXCEPT !.participants = participants])
  /\ UNCHANGED <<entities, orchVars, busVars, apiVars, genVars, engVars, charVars, now, decays,
                 decay_rate, maintenances, recall_result>>

\* EpisodicMemory.forget(episode_id): DELETE FROM episodes, then the index
\* entry; deleted = FALSE when _collection.delete raises (logged, swallowed)
Forget(episode_id, deleted) ==
  /\ recall_result.pc = "done"
  /\ recall_result.calls < MaxRecallCalls
  /\ episodes' = forget(episodes, {episode_id})
  /\ collection' = IF deleted THEN collection_delete(collection, {episode_id}) ELSE collection
  /\ recall_result' = [calls |-> recall_result.calls + 1, op |-> "forget", pc |-> "done",
                       arg |-> episode_id, queried |-> {}, ids |-> {}]
  /\ UNCHANGED <<entities, orchVars, busVars, apiVars, genVars, engVars, charVars, now,
                 episodes_added, decays, decay_rate, maintenances>>

\* EpisodicMemory.recall(query, n) up to its await: [] at once when there is
\* no collection or it is empty, else the index is queried
RecallQuery(n, nearest) ==
  /\ recall_result.pc = "done"
  /\ recall_result.calls < MaxRecallCalls
  /\ nearest \in query_results(collection, n)
  /\ recall_result' =
       [calls |-> recall_result.calls + 1, op |-> "recall",
        pc |-> IF ~collection.open \/ collection.ids = {} \/ nearest = {}
                 THEN "done" ELSE "fetch",
        arg |-> n, queried |-> nearest, ids |-> {}]
  /\ UNCHANGED <<entities, orchVars, busVars, apiVars, genVars, engVars, charVars, memVars,
                 collection>>

\* recall returns what _fetch_episodes_by_ids reads from the episodes table
RecallFetch ==
  /\ recall_result.pc = "fetch"
  /\ recall_result' = [recall_result EXCEPT
                         !.pc = "done",
                         !.ids = _fetch_episodes_by_ids(episodes, recall_result.queried)]
  /\ UNCHANGED <<entities, orchVars, busVars, apiVars, genVars, engVars, charVars, memVars,
                 collection>>

\* a forget call of another task while recall awaits the episodes table
ForgetDuringRecall(episode_id, deleted) ==
  /\ recall_result.pc = "fetch"
  /\ episode_id \in DOMAIN episodes
  /\ episodes' = forget(episodes, {episode_id})
  /\ collection' = IF deleted THEN collection_delete(collection, {episode_id}) ELSE collection
  /\ UNCHANGED <<entities, orchVars, busVars, apiVars, genVars, engVars, charVars, now,
                 episodes_added, decays, decay_rate, maintenances, recall_result>>

\* EpisodicMemory.recall_about(entity_id, n)
RecallAbout(entity_id, n, rows) ==
  /\ recall_result.pc = "done"
  /\ recall_result.calls < MaxRecallCalls
  /\ rows \in recall_about(episodes, entity_id, n)
  /\ recall_result' = [calls |-> recall_result.calls + 1, op |-> "recall_about", pc |-> "done",
                       arg |-> n, queried |-> {}, ids |-> rows]
  /\ UNCHANGED <<entities, orchVars, busVars, apiVars, genVars, engVars, charVars, memVars,
                 collection>>

\* EpisodicMemory.get_important_memories(threshold)
ImportantMemories(threshold) ==
  /\ recall_result.pc = "done"
  /\ recall_result.calls < MaxRecallCalls
  /\ recall_result' = [calls |-> recall_result.calls + 1, op |-> "important", pc |-> "done",
                       arg |-> threshold, queried |-> {},
                       ids |-> get_important_memories(episodes, threshold)]
  /\ UNCHANGED <<entities, orchVars, busVars, apiVars, genVars, engVars, charVars, memVars,
                 collection>>

NextRecall ==
  \/ InitCollection
  \/ \E participants \in ParticipantLists, imp \in {300, 700} : SaveEpisode(participants, imp)
  \/ \E id \in 1..MaxEpisodes, deleted \in BOOLEAN : Forget(id, deleted)
  \/ \E n \in Ns, nearest \in SUBSET (1..MaxEpisodes) : RecallQuery(n, nearest)
  \/ RecallFetch
  \/ \E id \in 1..MaxEpisodes, deleted \in BOOLEAN : ForgetDuringRecall(id, deleted)
  \/ \E n \in Ns, rows \in SUBSET (1..MaxEpisodes) : RecallAbout("Luna", n, rows)
  \/ \E threshold \in {0, 500} : ImportantMemories(threshold)

(* ============================ CharacterState =========================== *)
\* Mood, trait, conviction, trust, familiarity and sentiment values are in
\* thousandths (1000 is 1.0).

\* longest belief list that is followed (transform_belief can make two beliefs
\* share a text, after which add_belief lengthens the list without end)
MaxBeliefs == 2
\* belief texts
Texts == {"b1", "b2"}
\* conviction arguments of add_belief: below, at and above the kept range
Convictions == {-500, 50, 700, 2000}
\* delta arguments of evolve_belief: inside the +-0.1 window and far outside it
BeliefDeltas == {-5000, -100, -50, 50, 5000}
\* the mood fields and traits that are followed (two of the five, one of the six)
Moods == {"energy", "anxiety"}
Traits == {"curiosity"}

\* RelationshipState(): the defaults of a relationship created lazily
RelationshipState == [trust |-> 500, familiarity |-> 0, sentiment |-> 0, notes |-> <<>>]

Belief(text, conviction) == [text |-> text, conviction |-> conviction]

\* CharacterState(): the default field values
CharacterState ==
  [core_traits |-> [t \in Traits |-> 500],
   current_mood |-> [m \in Moods |-> IF m = "anxiety" THEN 200 ELSE 500],
   beliefs |-> <<>>,
   relationships |-> <<>>]

\* update_mood: every known key moves by its delta and is clamped to [0.0, 1.0]
update_mood(ch, changes) ==
  [ch EXCEPT !.current_mood =
     [k \in DOMAIN @ |->
        IF k \in DOMAIN changes THEN Max(0, Min(1000, @[k] + changes[k])) ELSE @[k]]]

\* evolve_trait: a known trait moves by the delta clamped to +-0.02, then is
\* clamped to [0.0, 1.0]
evolve_trait(ch, trait, delta) ==
  IF trait \notin DOMAIN ch.core_traits THEN ch
  ELSE LET clamped_delta == Max(-20, Min(20, delta))
           new_value == ch.core_traits[trait] + clamped_delta
       IN [ch EXCEPT !.core_traits[trait] = Max(0, Min(1000, new_value))]

\* update_relationship: create the relationship when missing; a string under
\* "notes" is appended, any other key that is a field is assigned
update_relationship(ch, entity_id, updates) ==
  LET rel == IF entity_id \in DOMAIN ch.relationships
               THEN ch.relationships[entity_id] ELSE RelationshipState
      new_rel ==
        [key \in DOMAIN rel |->
           IF key \notin DOMAIN updates THEN rel[key]
           ELSE IF key = "notes" THEN Append(rel.notes, updates.notes)
           ELSE updates[key]]
  IN [ch EXCEPT !.relationships = Put(@, entity_id, new_rel)]

\* the position of the first belief with the text, 0 when there is none
first_belief(beliefs, text) ==
  IF \E i \in 1..Len(beliefs) : beliefs[i].text = text
    THEN CHOOSE i \in 1..Len(beliefs) :
           /\ beliefs[i].text = text
           /\ \A j \in 1..(i - 1) : beliefs[j].text # text
    ELSE 0

\* list.remove of the belief at position i
without_belief(beliefs, i) ==
  [j \in 1..(Len(beliefs) - 1) |-> IF j < i THEN beliefs[j] ELSE beliefs[j + 1]]

\* add_belief: strengthen an existing belief by 0.05, else append the belief
\* with its conviction clamped to [0.1, 1.0]
add_belief(ch, belief, conviction) ==
  LET i == first_belief(ch.beliefs, belief)
  IN IF i # 0
       THEN [ch EXCEPT !.beliefs[i].conviction = Min(1000, @ + 50)]
       ELSE [ch EXCEPT !.beliefs =
               Append(@, Belief(belief, Max(100, Min(1000, conviction))))]

\* remove_belief: drop every belief with the text
remove_belief(ch, belief) ==
  [ch EXCEPT !.beliefs = SelectSeq(@, LAMBDA b : b.text # belief)]

\* evolve_belief that never drops the belief
evolve_belief_keeps(ch, belief_text, delta) ==
  LET clamped == Max(-100, Min(100, delta))
      i == first_belief(ch.beliefs, belief_text)
  IN IF i = 0 THEN ch
     ELSE [ch EXCEPT !.beliefs[i].conviction = Max(0, Min(1000, @ + clamped))]

\* evolve_belief: the first belief with the text moves by the delta clamped to
\* +-0.1, is clamped to [0.0, 1.0] and is removed when it ends below 0.1
evolve_belief(ch, belief_text, delta) ==
  LET clamped == Max(-100, Min(100, delta))
      i == first_belief(ch.beliefs, belief_text)
  IN IF i = 0 THEN ch
     ELSE LET conviction == Max(0, Min(1000, ch.beliefs[i].conviction + clamped))
          IN IF conviction < 100
               THEN [ch EXCEPT !.beliefs = without_belief(@, i)]
               ELSE [ch EXCEPT !.beliefs[i].conviction = conviction]

\* transform_belief: rename the first belief with the old text, or add the
\* new text with conviction 0.5 when there is none
transform_belief(ch, old_text, new_text) ==
  LET i == first_belief(ch.beliefs, old_text)
  IN IF i # 0
       THEN [ch EXCEPT !.beliefs[i].text = new_text]
       ELSE add_belief(ch, new_text, 500)

NoCall == [op |-> "none"]

\* no reflect call has been issued
NoReflect == [pc |-> "init", conversation_messages |-> <<>>, raw_response |-> <<>>,
              result |-> "none_yet"]

InitCharacter ==
  /\ character = CharacterState
  /\ facts = <<>>
  /\ last_call = NoCall
  /\ reflections = 0
  /\ reflecting = NoReflect

AddBelief(belief, conviction) ==
  /\ Len(add_belief(character, belief, conviction).beliefs) <= MaxBeliefs
  /\ character' = add_belief(character, belief, conviction)
  /\ last_call' = [op |-> "add_belief", belief |-> belief, conviction |-> conviction]
  /\ UNCHANGED <<entities, orchVars, busVars, apiVars, recallVars, genVars, engVars, memVars, facts, reflections, reflecting>>

RemoveBelief(belief) ==
  /\ character' = remove_belief(character, belief)
  /\ last_call' = [op |-> "remove_belief", belief |-> belief]
  /\ UNCHANGED <<entities, orchVars, busVars, apiVars, recallVars, genVars, engVars, memVars, facts, reflections, reflecting>>

EvolveBelief(belief_text, delta) ==
  /\ character' = evolve_belief(character, belief_text, delta)
  /\ last_call' = [op |-> "evolve_belief", belief_text |-> belief_text, delta |-> delta]
  /\ UNCHANGED <<entities, orchVars, busVars, apiVars, recallVars, genVars, engVars, memVars, facts, reflections, reflecting>>

TransformBelief(old_text, new_text) ==
  /\ Len(transform_belief(character, old_text, new_text).beliefs) <= MaxBeliefs
  /\ character' = transform_belief(character, old_text, new_text)
  /\ last_call' = [op |-> "transform_belief", old_text |-> old_text, new_text |-> new_text]
  /\ UNCHANGED <<entities, orchVars, busVars, apiVars, recallVars, genVars, engVars, memVars, facts, reflections, reflecting>>

(* =========================== ReflectionEngine ========================== *)
\* A reflection record is the parsed JSON object: a function whose domain is
\* the keys that are present.  JSON objects whose order of keys matters to the
\* code are sequences of <<key, value>> pairs with distinct keys; texts
\* (summary, follow_up) are sequences of words; every delta is a number.

\* number of reflection records applied
MaxReflections == 3

\* dict.get(key, default)
get(d, key, default) == IF key \in DOMAIN d THEN d[key] ELSE default

\* ReflectionEngine._clamp
clamp(value, min_val, max_val) == Max(min_val, Min(max_val, value))

\* _apply_reflection 1: the Episode built from the record's episode part
reflection_episode(reflection, t) ==
  LET episode_data == get(reflection, "episode", <<>>)
      summary == get(episode_data, "summary", <<"Conversation", "held">>)
      follow_up == get(episode_data, "follow_up", <<>>)
  IN Episode(t,
             IF follow_up # <<>> THEN summary \o <<"[Next time:">> \o follow_up \o <<"]">>
                                 ELSE summary,
             get(episode_data, "emotional_tone", "neutral"),
             clamp(get(episode_data, "importance", 500), 0, 1000),
             get(episode_data, "tags", <<>>))

\* _apply_reflection with the mood deltas passed on as they come
unclamped_mood(mood_changes) == mood_changes

\* _apply_reflection: clamped_mood, every mood delta clamped to +-0.2
clamped_mood(mood_changes) ==
  [k \in DOMAIN mood_changes |-> clamp(mood_changes[k], -200, 200)]

\* _apply_reflection: for trait, delta in trait_nudges.items(): evolve_trait
RECURSIVE apply_trait_nudges(_, _)
apply_trait_nudges(ch, nudges) ==
  IF nudges = <<>> THEN ch
  ELSE apply_trait_nudges(evolve_trait(ch, Head(nudges)[1], Head(nudges)[2]), Tail(nudges))

\* _apply_reflection: add_belief for every non-empty text of new_beliefs
RECURSIVE apply_new_beliefs(_, _)
apply_new_beliefs(ch, beliefs) ==
  IF beliefs = <<>> THEN ch
  ELSE apply_new_beliefs(
         IF Head(beliefs) # "" THEN add_belief(ch, Head(beliefs), 700) ELSE ch,
         Tail(beliefs))

\* _apply_reflection: remove_belief for every non-empty text of removed_beliefs
RECURSIVE apply_removed_beliefs(_, _)
apply_removed_beliefs(ch, beliefs) ==
  IF beliefs = <<>> THEN ch
  ELSE apply_removed_beliefs(
         IF Head(beliefs) # "" THEN remove_belief(ch, Head(beliefs)) ELSE ch,
         Tail(beliefs))

\* _apply_reflection: evolve_belief for every item of belief_evolutions
RECURSIVE apply_belief_evolutions(_, _)
apply_belief_evolutions(ch, evolutions) ==
  IF evolutions = <<>> THEN ch
  ELSE apply_belief_evolutions(
         evolve_belief(ch, Head(evolutions)[1], Head(evolutions)[2]), Tail(evolutions))

\* _apply_reflection: transform_belief for every item of belief_transformations
\* whose new text is not empty
RECURSIVE apply_belief_transformations(_, _)
apply_belief_transformations(ch, transformations) ==
  IF transformations = <<>> THEN ch
  ELSE apply_belief_transformations(
         IF Head(transformations)[2] # ""
           THEN transform_belief(ch, Head(transformations)[1], Head(transformations)[2])
           ELSE ch,
         Tail(transformations))

\* _apply_reflection 2: the character updates, in the order of the code
apply_character_updates(ch, char_updates) ==
  LET mood == update_mood(ch, clamped_mood(get(char_updates, "mood_changes", <<>>)))
      traits == apply_trait_nudges(mood, get(char_updates, "trait_nudges", <<>>))
      added == apply_new_beliefs(traits, get(char_updates, "new_beliefs", <<>>))
      removed == apply_removed_beliefs(added, get(char_updates, "removed_beliefs", <<>>))
      evolved == apply_belief_evolutions(removed, get(char_updates, "belief_evolutions", <<>>))
  IN apply_belief_transformations(evolved, get(char_updates, "belief_transformations", <<>>))

\* the non-empty notes of a new_notes list
valid_notes(new_notes) == SelectSeq(new_notes, LAMBDA note : note # "")

\* _apply_reflection 3 with every delta applied to the default of a new
\* relationship
relationship_changes_from_default(ch, entity_id, updates) ==
  LET notes == valid_notes(get(updates, "new_notes", <<>>))
      keys == {k \in {"trust", "familiarity", "sentiment"} : (k \o "_delta") \in DOMAIN updates}
                \cup (IF notes # <<>> THEN {"notes"} ELSE {})
  IN [k \in keys |->
        CASE k = "trust" -> clamp(500 + updates.trust_delta, 0, 1000)
          [] k = "familiarity" -> clamp(0 + updates.familiarity_delta, 0, 1000)
          [] k = "sentiment" -> clamp(0 + updates.sentiment_delta, -1000, 1000)
          [] k = "notes" -> notes[Len(notes)]]

\* _apply_reflection 3: rel_changes for one entity.  Each delta is added to
\* the stored value (the default when there is no relationship yet) and
\* clamped; every valid note overwrites rel_changes["notes"], the last one stays
relationship_changes(ch, entity_id, updates) ==
  LET has_rel == entity_id \in DOMAIN ch.relationships
      current_trust == IF has_rel THEN ch.relationships[entity_id].trust ELSE 500
      current_fam == IF has_rel THEN ch.relationships[entity_id].familiarity ELSE 0
      current_sent == IF has_rel THEN ch.relationships[entity_id].sentiment ELSE 0
      notes == valid_notes(get(updates, "new_notes", <<>>))
      keys == {k \in {"trust", "familiarity", "sentiment"} : (k \o "_delta") \in DOMAIN updates}
                \cup (IF notes # <<>> THEN {"notes"} ELSE {})
  IN [k \in keys |->
        CASE k = "trust" -> clamp(current_trust + updates.trust_delta, 0, 1000)
          [] k = "familiarity" -> clamp(current_fam + updates.familiarity_delta, 0, 1000)
          [] k = "sentiment" -> clamp(current_sent + updates.sentiment_delta, -1000, 1000)
          [] k = "notes" -> notes[Len(notes)]]

\* the keys of the prompt template, which _apply_reflection skips
PlaceholderKeys == {"entity_id_here", "kisi_adi"}

\* _apply_reflection 3: for entity_id, updates in rel_updates.items()
RECURSIVE apply_relationship_updates(_, _)
apply_relationship_updates(ch, rel_updates) ==
  IF rel_updates = <<>> THEN ch
  ELSE LET entity_id == Head(rel_updates)[1]
           rel_changes == relationship_changes(ch, entity_id, Head(rel_updates)[2])
       IN apply_relationship_updates(
            IF entity_id \notin PlaceholderKeys /\ DOMAIN rel_changes # {}
              THEN update_relationship(ch, entity_id, rel_changes)
              ELSE ch,
            Tail(rel_updates))

\* _apply_reflection 4: the KnowledgeFacts saved, one for every item with a
\* subject, a predicate and an object
RECURSIVE reflection_facts(_)
reflection_facts(new_knowledge) ==
  IF new_knowledge = <<>> THEN <<>>
  ELSE LET fact_data == Head(new_knowledge)
           subject == get(fact_data, "subject", "")
           predicate == get(fact_data, "predicate", "")
           obj == get(fact_data, "object", "")
       IN (IF subject # "" /\ predicate # "" /\ obj # ""
             THEN <<[subject |-> subject, predicate |-> predicate, object |-> obj,
                     confidence |-> clamp(get(fact_data, "confidence", 800), 0, 1000)]>>
             ELSE <<>>)
          \o reflection_facts(Tail(new_knowledge))

\* _apply_reflection: episode, character updates, relationship updates, facts
apply_reflection(reflection) ==
  /\ add_episode(reflection_episode(reflection, now))
  /\ character' =
       apply_relationship_updates(
         apply_character_updates(character, get(reflection, "character_updates", <<>>)),
         get(reflection, "relationship_updates", <<>>))
  /\ facts' = facts \o reflection_facts(get(reflection, "new_knowledge", <<>>))
  /\ reflections' = reflections + 1

\* reflection records the generator can return
Reflections ==
  << [self_reflection |-> <<"s">>],
     [character_updates |-> [mood_changes |-> [energy |-> 5000]]],
     [character_updates |->
        [mood_changes |-> [energy |-> -150, anxiety |-> -5000, bogus |-> 100]]],
     [character_updates |-> [trait_nudges |-> << <<"curiosity", 1000>>, <<"bogus", 20>> >>]],
     [character_updates |-> [trait_nudges |-> << <<"curiosity", -10>> >>]],
     [character_updates |->
        [new_beliefs |-> <<"b1", "", "b2">>,
         belief_evolutions |-> << <<"b1", 5000>> >>]],
     [character_updates |->
        [removed_beliefs |-> <<"b1">>,
         belief_evolutions |-> << <<"b2", -5000>> >>,
         belief_transformations |-> << <<"b2", "b1">>, <<"b1", "">> >>]],
     [relationship_updates |-> << <<"Luna", [trust_delta |-> 100]>> >>],
     [relationship_updates |->
        << <<"Luna", [trust_delta |-> -2000, familiarity_delta |-> 400,
                      sentiment_delta |-> -2000]>> >>],
     [relationship_updates |->
        << <<"Luna", [sentiment_delta |-> 700, new_notes |-> <<"n1">>]>> >>],
     [relationship_updates |->
        << <<"Luna", [new_notes |-> <<"n1", "", "n2">>]>>,
           <<"entity_id_here", [trust_delta |-> 100]>> >>],
     [episode |-> [summary |-> <<"s">>, emotional_tone |-> "joy", importance |-> 5000,
                   tags |-> <<"t">>, follow_up |-> <<"f">>],
      new_knowledge |->
        << [subject |-> "Luna", predicate |-> "likes", object |-> "tea",
            confidence |-> 5000],
           [subject |-> "", predicate |-> "likes", object |-> "tea"] >>],
     [character_updates |->
        [mood_changes |-> [anxiety |-> 5000],
         trait_nudges |-> << <<"curiosity", -1000>> >>],
      relationship_updates |->
        << <<"Luna", [trust_delta |-> 2000, new_notes |-> <<"n3">>]>> >>] >>

\* ReflectionEngine._apply_reflection of one record
ApplyReflection(reflection) ==
  /\ reflections < MaxReflections
  /\ apply_reflection(reflection)
  /\ last_call' = [op |-> "apply_reflection", reflection |-> reflection]
  /\ UNCHANGED <<entities, orchVars, busVars, apiVars, recall_result, genVars, engVars, now, decays, decay_rate, maintenances,
                 reflecting>>

(* ------------------------- ReflectionEngine.reflect -------------------- *)
\* The generator's text is a sequence of tokens: a code fence, a newline (the
\* only whitespace), the brackets of JSON, a number, "m" for the members of
\* an object (valid only as the whole content of one pair of braces) and "x"
\* for any other text.
FENCE == "FENCE"
NL == "NL"

\* longest run of tokens between the optional wrappings of an output
MaxCoreLen == 3
CoreTokens == {"{", "}", "[", "]", "1", "m", "x"}
\* what an output can start and end with
Prefixes == {<<>>, <<FENCE, NL>>, <<FENCE>>, <<"x">>, <<NL>>}
Suffixes == {<<>>, <<NL, FENCE>>, <<FENCE>>, <<"x">>, <<NL>>}
Outputs ==
  {p \o c \o q : p \in Prefixes, q \in Suffixes,
                 c \in UNION {[1..n -> CoreTokens] : n \in 0..MaxCoreLen}}
\* the conversations passed to reflect: none, one message, more than three
Conversations == {<<>>, <<"m1">>, <<"m1", "m2", "m3", "m4">>}

\* str.strip
RECURSIVE strip(_)
strip(text) ==
  IF text = <<>> THEN text
  ELSE IF Head(text) = NL THEN strip(Tail(text))
  ELSE IF text[Len(text)] = NL THEN strip(SubSeq(text, 1, Len(text) - 1))
  ELSE text

\* str.find / str.rfind of a token: its first / last position, 0 when absent
find(text, tok) ==
  IF \E i \in 1..Len(text) : text[i] = tok
    THEN CHOOSE i \in 1..Len(text) : text[i] = tok /\ \A j \in 1..(i - 1) : text[j] # tok
    ELSE 0
rfind(text, tok) ==
  IF \E i \in 1..Len(text) : text[i] = tok
    THEN CHOOSE i \in 1..Len(text) :
           text[i] = tok /\ \A j \in (i + 1)..Len(text) : text[j] # tok
    ELSE 0

\* _parse_reflection_json on a text that starts with a fence: drop the first
\* line, drop the last line when it is a fence, join and strip
without_fences(text) ==
  LET i == find(text, NL)
  IN IF i = 0 THEN <<>>
     ELSE LET rest == SubSeq(text, i + 1, Len(text))
              j == rfind(rest, NL)
              last_line == SubSeq(rest, j + 1, Len(rest))
          IN strip(IF last_line = <<FENCE>> THEN SubSeq(rest, 1, j - 1) ELSE rest)

\* json.loads: the kind of value the text is, "error" for JSONDecodeError
RECURSIVE json_value(_)
json_value(tokens) ==
  IF tokens = <<"1">> THEN "number"
  ELSE IF tokens = <<"{", "}">> THEN "empty_dict"
  ELSE IF tokens = <<"{", "m", "}">> THEN "dict"
  ELSE IF /\ Len(tokens) >= 2
          /\ tokens[1] = "["
          /\ tokens[Len(tokens)] = "]"
          /\ \/ Len(tokens) = 2
             \/ json_value(SubSeq(tokens, 2, Len(tokens) - 1)) # "error"
         THEN "list"
  ELSE "error"
json_loads(text) == json_value(SelectSeq(text, LAMBDA tok : tok # NL))

\* _parse_reflection_json: the kind of dict parsed, None when both attempts fail
_parse_reflection_json(raw_text) ==
  LET stripped == strip(raw_text)
      text == IF stripped # <<>> /\ stripped[1] = FENCE
                THEN without_fences(stripped) ELSE stripped
      start == find(text, "{")
      end == rfind(text, "}")
  IN IF json_loads(text) \in {"dict", "empty_dict"} THEN json_loads(text)
     ELSE IF start # 0 /\ end # 0 /\ end > start
               /\ json_loads(SubSeq(text, start, end)) \in {"dict", "empty_dict"}
            THEN json_loads(SubSeq(text, start, end))
     ELSE None

\* " | ".join of the message contents
RECURSIVE join(_)
join(parts) ==
  IF parts = <<>> THEN <<>>
  ELSE IF Len(parts) = 1 THEN <<parts[1]>>
  ELSE <<parts[1], "|">> \o join(Tail(parts))

\* _build_fallback_reflection that tags the episode
_build_fallback_reflection_tagged(messages, participants) ==
  [episode |-> [summary |-> <<>>, emotional_tone |-> "neutral", key_facts |-> <<>>,
                importance |-> 300, tags |-> <<"fallback">>],
   character_updates |-> [mood_changes |-> <<>>, trait_nudges |-> <<>>,
                          new_beliefs |-> <<>>, removed_beliefs |-> <<>>],
   relationship_updates |-> <<>>,
   new_knowledge |-> <<>>,
   self_reflection |-> <<"fallback", "used">>]

\* _build_fallback_reflection: a record made of the last three messages
_build_fallback_reflection(messages, participants) ==
  LET recent == IF Len(messages) > 3
                  THEN SubSeq(messages, Len(messages) - 2, Len(messages)) ELSE messages
      summary == <<"Conversation", "held:">> \o join(recent)
  IN [episode |-> [summary |-> summary, emotional_tone |-> "neutral",
                   key_facts |-> <<>>, importance |-> 300, tags |-> <<>>],
      character_updates |-> [mood_changes |-> <<>>, trait_nudges |-> <<>>,
                             new_beliefs |-> <<>>, removed_beliefs |-> <<>>],
      relationship_updates |-> <<>>,
      new_knowledge |-> <<>>,
      self_reflection |-> <<"fallback", "used">>]

\* reflect up to the generation call: an empty conversation returns None at once
ReflectCall(messages) ==
  /\ reflecting.pc = "init"
  /\ reflecting' =
       IF messages = <<>>
         THEN [reflecting EXCEPT !.pc = "done", !.result = None]
         ELSE [reflecting EXCEPT !.pc = "generating", !.conversation_messages = messages]
  /\ UNCHANGED <<entities, orchVars, busVars, apiVars, recallVars, genVars, engVars, memVars, character, facts, last_call,
                 reflections>>

\* reflect: _call_claude returned None, reflect returns None
ReflectNoResponse ==
  /\ reflecting.pc = "generating"
  /\ reflecting' = [reflecting EXCEPT !.pc = "done", !.result = None]
  /\ UNCHANGED <<entities, orchVars, busVars, apiVars, recallVars, genVars, engVars, memVars, character, facts, last_call,
                 reflections>>

\* reflect from the return of _call_claude: parse the text, fall back when it
\* cannot be parsed, apply the record and return it.  m is the record the
\* members of the text's object spell out
ReflectApply(raw_response, m) ==
  /\ reflecting.pc = "generating"
  /\ LET parsed == _parse_reflection_json(raw_response)
         reflection ==
           IF parsed = None
             THEN _build_fallback_reflection(reflecting.conversation_messages, <<>>)
             ELSE IF parsed = "dict" THEN m ELSE <<>>
     IN /\ apply_reflection(reflection)
        /\ last_call' = [op |-> "apply_reflection", reflection |-> reflection]
        /\ reflecting' = [reflecting EXCEPT !.pc = "done",
                                            !.raw_response = raw_response,
                                            !.result = "reflection"]
  /\ UNCHANGED <<entities, orchVars, busVars, apiVars, recall_result, genVars, engVars, now, decays, decay_rate, maintenances>>

(* ------------------- ConversationEngine, call by call ------------------ *)
\* number of calls one engine is followed through
MaxEngineCalls == 5

\* no call has been made on the engine since it was constructed
NoEngineCall == [calls |-> 0, op |-> "none", triggered |-> FALSE, unreflected |-> 0]

InitEngineLog == engine_log = [a \in Agents |-> NoEngineCall]

\* ConversationEngine.chat, from the call to its return: count the turn, run a
\* reflection pass at the threshold and record its turn
EngineChat(a) ==
  /\ engine_log[a].calls < MaxEngineCalls
  /\ LET counted == chat_returned(engine[a])
         triggered == reflection_due(counted)
     IN /\ engine' = [engine EXCEPT ![a] =
                        IF triggered THEN reflection_recorded(counted) ELSE counted]
        /\ engine_log' = [engine_log EXCEPT ![a] =
                            [calls |-> @.calls + 1, op |-> "chat", triggered |-> triggered,
                             unreflected |-> IF triggered THEN 0 ELSE @.unreflected + 1]]
  /\ UNCHANGED <<entities, apiVars, recallVars, interrupt_events, ev, conv, human, world_events, autoVars,
                 wmVars, busVars, memVars, charVars, genVars>>

\* ConversationEngine.end_conversation: a reflection pass when has_unreflected,
\* then the conversation record; no field of the engine changes
EngineEndConversation(a) ==
  /\ engine_log[a].calls < MaxEngineCalls
  /\ engine_log' = [engine_log EXCEPT ![a] =
                      [calls |-> @.calls + 1, op |-> "end_conversation",
                       triggered |-> forced_reflection(engine[a]) = "ran",
                       unreflected |-> IF forced_reflection(engine[a]) = "ran"
                                         THEN 0 ELSE @.unreflected]]
  /\ UNCHANGED <<entities, apiVars, recallVars, interrupt_events, ev, conv, engine, human, world_events,
                 autoVars, wmVars, busVars, memVars, charVars, genVars>>

\* ConversationEngine.reset: a new conversation starts
EngineReset(a) ==
  /\ engine_log[a].calls < MaxEngineCalls
  /\ engine' = [engine EXCEPT ![a] = reset_engine]
  /\ engine_log' = [engine_log EXCEPT ![a] =
                      [calls |-> @.calls + 1, op |-> "reset", triggered |-> FALSE,
                       unreflected |-> 0]]
  /\ UNCHANGED <<entities, apiVars, recallVars, interrupt_events, ev, conv, human, world_events, autoVars,
                 wmVars, busVars, memVars, charVars, genVars>>

(* ----------------------------- _call_claude --------------------------- *)
\* number of _call_claude calls issued
MaxGenCalls == 2
GenCalls == 1..MaxGenCalls

\* engine.MAX_RETRIES and reflection.MAX_RETRIES
MAX_RETRIES == 3
\* engine.BASE_DELAY and reflection.BASE_DELAY = 1.0, in seconds
BASE_DELAY == 1

\* who calls the generator: ConversationEngine._call_claude for a turn,
\* ReflectionEngine._call_claude for a reflection
CallKinds == {"turn", "reflection"}
\* what messages.create can raise: the two transient errors, any other APIError
APIErrors == {"RateLimitError", "APITimeoutError", "APIError"}

\* a _call_claude call that has not been issued
NoGeneration ==
  [kind |-> "none", pc |-> "init", attempt |-> 0, errors |-> <<>>, delays |-> <<>>,
   outcome |-> "none_yet"]

InitGeneration == generation = [g \in GenCalls |-> NoGeneration]

\* the except clause an error of messages.create reaches: "sleep" for the
\* clauses that back off and go round the loop, "break" for the one that
\* leaves it.  ReflectionEngine catches APITimeoutError together with APIError
handler(kind, error) ==
  IF error = "RateLimitError" THEN "sleep"
  ELSE IF error = "APITimeoutError" /\ kind = "turn" THEN "sleep"
  ELSE "break"

\* after the for loop: ConversationEngine raises RuntimeError, ReflectionEngine
\* logs and returns None
failed(kind) == IF kind = "turn" THEN "raised" ELSE "returned_none"

\* _call_claude is called and enters the first attempt (attempt 0)
CallClaude(g, kind) ==
  /\ generation[g].pc = "init"
  /\ \A h \in GenCalls : h < g => generation[h].pc # "init"
  /\ generation' = [generation EXCEPT ![g] =
                      [NoGeneration EXCEPT !.kind = kind, !.pc = "create"]]
  /\ UNCHANGED <<entities, orchVars, busVars, apiVars, recallVars, memVars, charVars, engVars>>

\* messages.create returns: _call_claude returns the text
CreateReturns(g) ==
  /\ generation[g].pc = "create"
  /\ generation' = [generation EXCEPT ![g].pc = "done", ![g].outcome = "returned"]
  /\ UNCHANGED <<entities, orchVars, busVars, apiVars, recallVars, memVars, charVars, engVars>>

\* messages.create raises: back off (asyncio.sleep(BASE_DELAY * 2 ** attempt))
\* or leave the loop and fail
CreateRaises(g, error) ==
  /\ generation[g].pc = "create"
  /\ generation' = [generation EXCEPT ![g] =
       IF handler(@.kind, error) = "sleep"
         THEN [@ EXCEPT !.pc = "sleep",
                        !.errors = Append(@, error),
                        !.delays = Append(@, BASE_DELAY * 2 ^ generation[g].attempt)]
         ELSE [@ EXCEPT !.pc = "done",
                        !.errors = Append(@, error),
                        !.outcome = failed(generation[g].kind)]]
  /\ UNCHANGED <<entities, orchVars, busVars, apiVars, recallVars, memVars, charVars, engVars>>

\* the sleep ends: the next attempt of range(MAX_RETRIES), or the end of the
\* loop and failure
SleepEnds(g) ==
  /\ generation[g].pc = "sleep"
  /\ generation' = [generation EXCEPT ![g] =
       IF @.attempt + 1 < MAX_RETRIES
         THEN [@ EXCEPT !.pc = "create", !.attempt = @ + 1]
         ELSE [@ EXCEPT !.pc = "done", !.outcome = failed(generation[g].kind)]]
  /\ UNCHANGED <<entities, orchVars, busVars, apiVars, recallVars, memVars, charVars, engVars>>

InitEntities ==
  [id \in EntityIds |->
     IF id = HumanId THEN WorldEntity("human", "online") ELSE WorldEntity("agent", "idle")]

\* a send call that has not been issued yet carries no message
NoMessage == [message_id |-> 0, from_id |-> None, to_id |-> None]

\* no broadcast call has been issued
NoBroadcast ==
  [pc |-> "init", from_id |-> None, pos |-> 0, used |-> 0, msg |-> NoMessage,
   sent |-> <<>>, kept |-> {}]

\* no get_history call has returned
NoHistory == [entity |-> None, limit |-> 0, rows |-> <<>>]

\* no receive(entity, timeout) call is pending
NoReceive == [pc |-> "idle", q |-> <<>>]

InitBus ==
  /\ queues = [id \in EntityIds |-> <<>>]
  /\ messages_db = <<>>
  /\ sender = [s \in Senders |-> [pc |-> "init", msg |-> NoMessage, after |-> {}]]
  /\ enqueued = [id \in EntityIds |-> <<>>]
  /\ returned = [id \in EntityIds |-> <<>>]
  /\ receiver = [id \in EntityIds |-> NoReceive]
  /\ recv_result = [ent |-> None, why |-> "none_yet", msg |-> NoMessage]
  /\ inbox_order = <<"a1", "a2", HumanId>>
  /\ bcast = NoBroadcast
  /\ history_result = NoHistory

\* no call on the message/conversation API has been made
NoApiCall == [calls |-> 0, op |-> "none", ids |-> <<>>, outcome |-> "none"]

\* a run that has issued no chat request
NoDialogue ==
  [initiator_message |-> <<>>, current_message |-> <<>>, requests |-> <<>>,
   responses |-> <<>>, pending |-> <<>>]

InitApi ==
  /\ api = NoApiCall
  /\ dialogue = [c \in Convs |-> NoDialogue]

\* the separately modelled components as constructed
InitUnits ==
  /\ InitApi
  /\ InitMemory
  /\ InitCharacter
  /\ InitEngineLog
  /\ InitGeneration

Init ==
  /\ entities = InitEntities
  /\ interrupt_events = <<>>
  /\ ev = [c \in Convs |-> <<FALSE, FALSE>>]
  /\ conv = [c \in Convs |-> NoRun]
  /\ engine = [a \in Agents |-> reset_engine]
  /\ human = [h \in Humans |-> [pc |-> "init", target |-> "a1"]]
  /\ world_events = <<>>
  /\ InitAuto
  /\ InitUnits
  /\ InitBus

Next ==
  \/ \E c \in Convs, x \in Agents, mt \in 1..MaxTurnsArg :
       \E y \in Agents \ {x} : RunConversation(c, x, y, mt)
  \/ \E c \in Convs, hasEnd \in BOOLEAN : TurnReturn(c, hasEnd)
  \/ \E c \in Convs : ChatReflectDone(c)
  \/ \E c \in Convs : TurnFail(c)
  \/ \E c \in Convs : End1Done(c)
  \/ \E c \in Convs : End2Done(c)
  \/ \E c \in Convs : EventDone(c)
  \/ \E c \in Convs : TeardownFail(c)
  \/ \E h \in Humans, t \in Agents : HumanMessage(h, t)
  \/ \E h \in Humans : HumanChatStart(h)
  \/ \E h \in Humans : HumanReturn(h)
  \/ \E h \in Humans : HumanReflectDone(h)
  \/ \E h \in Humans : HumanFail(h)
  \/ StopCommand

Spec == Init /\ [][Next]_vars

(* ================= autonomy loops and Orchestrator.stop ================= *)
NextAutonomy ==
  \/ \E a \in Agents : Wake(a)
  \/ \E a \in Agents, d \in Decisions, t \in Agents \cup {None}, hasMsgs \in BOOLEAN :
       Decide(a, d, t, hasMsgs)
  \/ \E a \in Agents, c \in Convs : OpeningDone(a, c)
  \/ \E c \in Convs, hasEnd \in BOOLEAN : TurnReturn(c, hasEnd)
  \/ \E c \in Convs : ChatReflectDone(c)
  \/ \E c \in Convs : TurnFail(c)
  \/ \E c \in Convs : End1Done(c)
  \/ \E c \in Convs : End2Done(c)
  \/ \E c \in Convs : EventDone(c)
  \/ \E c \in Convs : TeardownFail(c)
  \/ \E a \in Agents : ConversationReturned(a)
  \/ \E a \in Agents : ReflectDone(a)
  \/ \E a \in Agents : ReflectFail(a)
  \/ \E a \in Agents : ReflectEventDone(a)
  \/ StopCall
  \/ StopGathered
  \/ StopReturn

SpecAutonomy == Init /\ [][NextAutonomy]_vars

(* ===================== WorkingMemory on its own ========================= *)
SpecWorking == Init /\ [][NextWorking]_vars

(* ===================== WorldRegistry on its own ======================== *)
\* orchestrator state that the registry and bus specifications leave alone
InitOrch ==
  /\ interrupt_events = <<>>
  /\ ev = [c \in Convs |-> <<FALSE, FALSE>>]
  /\ conv = [c \in Convs |-> NoRun]
  /\ engine = [a \in Agents |-> reset_engine]
  /\ human = [h \in Humans |-> [pc |-> "init", target |-> "a1"]]
  /\ world_events = <<>>
  /\ InitAuto
  /\ InitUnits

\* registry.register(entity) as called by _register_entity / register_human
Register(id) ==
  /\ entities' = register(entities, id, InitEntities[id])
  /\ UNCHANGED <<unitVars, orchVars, busVars>>

\* registry.unregister(entity_id)
Unregister(id) ==
  /\ id \in DOMAIN entities
  /\ entities' = Pop(entities, id)
  /\ UNCHANGED <<unitVars, orchVars, busVars>>

\* registry.update_status(entity_id, status, conversation_with) by any caller
UpdateStatus(id, status, cw) ==
  /\ entities' = update_status(entities, id, status, cw)
  /\ UNCHANGED <<unitVars, orchVars, busVars>>

InitRegistry ==
  /\ entities = <<>>
  /\ InitOrch
  /\ InitBus

NextRegistry ==
  \/ \E id \in EntityIds : Register(id)
  \/ \E id \in EntityIds : Unregister(id)
  \/ \E id \in EntityIds, status \in StatusTokens, cw \in EntityIds \cup {None} :
       UpdateStatus(id, status, cw)

SpecRegistry == InitRegistry /\ [][NextRegistry]_vars

(* ============================= MessageBus ============================== *)
\* a Message; message_id is a fresh uuid4, modelled by the number of the send call
Message(id, from, to) == [message_id |-> id, from_id |-> from, to_id |-> to]

\* the set of messages held by a sequence
Range(q) == {q[i] : i \in 1..Len(q)}

\* position of x in the sequence q (0 when absent)
IndexOf(q, x) == IF x \in Range(q) THEN CHOOSE i \in 1..Len(q) : q[i] = x ELSE 0

\* mutant of persist_message: the row is never written
persist_message_dropped(db, m) == db

\* MessageBus._persist_message: INSERT INTO messages ... ; commit
persist_message(db, m) == Append(db, m)

\* mutant of deliver: the message is put at the head of the queue
deliver_front(qs, m) ==
  IF m.to_id \in DOMAIN qs THEN [qs EXCEPT ![m.to_id] = <<m>> \o @] ELSE qs

\* MessageBus.send after _persist_message returned: queue.put(message) when the
\* recipient has an inbox
deliver(qs, m) ==
  IF m.to_id \in DOMAIN qs THEN [qs EXCEPT ![m.to_id] = Append(@, m)] ELSE qs

\* the sequence q without its element e (a key is held at most once)
Without(q, e) == SelectSeq(q, LAMBDA x : x # e)

\* dict.pop while a broadcast iterates the dict: the entries behind the removed
\* key keep their slots, so the iterator has one live key less before its
\* position when the removed key was already passed; the entity no longer has
\* had its mailbox for the whole broadcast
iterator_after_remove(b, order, e) ==
  IF b.pc \in {"persist", "persisted"}
  THEN [b EXCEPT !.pos = IF IndexOf(order, e) <= @ THEN @ - 1 ELSE @,
                 !.kept = @ \ {e}]
  ELSE b

\* broadcast's `for entity_id in self._queues`: the dict iterator raises
\* RuntimeError when the dict no longer has the size it had when the iteration
\* began, ends after the last key, and otherwise yields the next key; the
\* sender's own key is passed over, any other key gets a Message and a send call.
\* (A resize of the dict's entry table by an insertion is not modelled.)
RECURSIVE next_recipient(_, _)
next_recipient(b, order) ==
  IF Len(order) # b.used THEN [b EXCEPT !.pc = "raised", !.msg = NoMessage]
  ELSE IF b.pos >= Len(order) THEN [b EXCEPT !.pc = "done", !.msg = NoMessage]
  ELSE LET key == order[b.pos + 1]
           nb == [b EXCEPT !.pos = @ + 1]
       IN IF key = b.from_id
          THEN next_recipient(nb, order)
          ELSE [nb EXCEPT !.pc = "persist",
                          !.msg = Message(Len(b.sent) + 1, b.from_id, key),
                          !.sent = Append(@, key)]

\* Message.timestamp: taken when the Message is constructed; constructions are
\* numbered like the send calls they are made for
timestamp(m) == m.message_id

\* the rows of the messages table that name entity e as sender or recipient
\* (WHERE from_id = ? OR to_id = ?)
rows_of(db, e) == {m \in Range(db) : m.from_id = e \/ m.to_id = e}

\* ORDER BY timestamp ASC of a set of rows
RECURSIVE order_by_timestamp(_)
order_by_timestamp(rows) ==
  IF rows = {} THEN <<>>
  ELSE LET first == CHOOSE m \in rows : \A o \in rows : timestamp(m) <= timestamp(o)
       IN <<first>> \o order_by_timestamp(rows \ {first})

\* ORDER BY timestamp DESC of a set of rows
RECURSIVE order_by_timestamp_desc(_)
order_by_timestamp_desc(rows) ==
  IF rows = {} THEN <<>>
  ELSE LET first == CHOOSE m \in rows : \A o \in rows : timestamp(m) >= timestamp(o)
       IN <<first>> \o order_by_timestamp_desc(rows \ {first})

\* LIMIT n
limit_rows(q, n) == SubSeq(q, 1, IF n < Len(q) THEN n ELSE Len(q))

\* mutant of get_history: ORDER BY timestamp ASC
get_history_oldest_first(db, e, limit) == limit_rows(order_by_timestamp(rows_of(db, e)), limit)

\* MessageBus.get_history: SELECT * FROM messages WHERE from_id = ? OR to_id = ?
\* ORDER BY timestamp DESC LIMIT ?
get_history(db, e, limit) == limit_rows(order_by_timestamp_desc(rows_of(db, e)), limit)

\* the send calls that have returned or raised
Returned(snd) == {r \in Senders : snd[r].pc \in {"delivered", "no_inbox", "failed"}}

\* what a receive call hands to its caller: a message, or None with the branch
\* of receive that produced it
ReceiveResult(e, why, m) == [ent |-> e, why |-> why, msg |-> m]

\* MessageBus.create_inbox
CreateInbox(e) ==
  /\ e \notin DOMAIN queues
  /\ queues' = Put(queues, e, <<>>)
  /\ inbox_order' = Append(inbox_order, e)
  /\ UNCHANGED <<unitVars, entities, orchVars, bcast, history_result, messages_db, sender,
                 enqueued, returned, receiver, recv_result>>

\* MessageBus.remove_inbox: the Queue object leaves the dict; a receive call
\* waiting on it keeps the only reference to it
RemoveInbox(e) ==
  /\ e \in DOMAIN queues
  /\ queues' = Pop(queues, e)
  /\ inbox_order' = Without(inbox_order, e)
  /\ bcast' = iterator_after_remove(bcast, inbox_order, e)
  /\ enqueued' = [enqueued EXCEPT ![e] = <<>>]
  /\ returned' = [returned EXCEPT ![e] = <<>>]
  /\ receiver' = [receiver EXCEPT ![e] =
       IF @.pc = "waiting" THEN [pc |-> "orphaned", q |-> queues[e]] ELSE @]
  /\ UNCHANGED <<unitVars, entities, orchVars, history_result, messages_db, sender, recv_result>>

\* MessageBus.send is called: _persist_message is awaited
Send(s, from, to) ==
  /\ sender[s].pc = "init"
  /\ \A r \in Senders : r < s => sender[r].pc # "init"
  /\ sender' = [sender EXCEPT ![s] =
       [pc |-> "persist", msg |-> Message(s, from, to), after |-> Returned(sender)]]
  /\ UNCHANGED <<unitVars, entities, orchVars, inbox_order, bcast, history_result, queues, messages_db, enqueued, returned,
                 receiver, recv_result>>

\* the INSERT is committed; the connection is still being closed
PersistCommit(s) ==
  /\ sender[s].pc = "persist"
  /\ messages_db' = persist_message(messages_db, sender[s].msg)
  /\ sender' = [sender EXCEPT ![s].pc = "persisted"]
  /\ UNCHANGED <<unitVars, entities, orchVars, inbox_order, bcast, history_result, queues, enqueued, returned, receiver, recv_result>>

\* the durable store raises: the exception leaves send before any delivery
PersistFail(s) ==
  /\ sender[s].pc = "persist"
  /\ sender' = [sender EXCEPT ![s].pc = "failed"]
  /\ UNCHANGED <<unitVars, entities, orchVars, inbox_order, bcast, history_result, queues, messages_db, enqueued, returned,
                 receiver, recv_result>>

\* _persist_message returned: look the inbox up and enqueue, or only log
Deliver(s) ==
  /\ sender[s].pc = "persisted"
  /\ queues' = deliver(queues, sender[s].msg)
  /\ enqueued' = IF sender[s].msg.to_id \in DOMAIN queues
                 THEN [enqueued EXCEPT ![sender[s].msg.to_id] = Append(@, sender[s].msg)]
                 ELSE enqueued
  /\ sender' = [sender EXCEPT ![s].pc =
       IF sender[s].msg.to_id \in DOMAIN queues THEN "delivered" ELSE "no_inbox"]
  /\ UNCHANGED <<unitVars, entities, orchVars, inbox_order, bcast, history_result, messages_db, returned, receiver, recv_result>>

\* MessageBus.receive(e) without timeout on a non-empty inbox: queue.get_nowait()
Receive(e) ==
  /\ e \in DOMAIN queues
  /\ queues[e] # <<>>
  /\ queues' = [queues EXCEPT ![e] = Tail(@)]
  /\ returned' = [returned EXCEPT ![e] = Append(@, Head(queues[e]))]
  /\ recv_result' = ReceiveResult(e, "message", Head(queues[e]))
  /\ UNCHANGED <<unitVars, entities, orchVars, inbox_order, bcast, history_result, messages_db, sender, enqueued, receiver>>

\* MessageBus.receive(e, ...) when the entity has no inbox: return None
ReceiveNoInbox(e) ==
  /\ e \notin DOMAIN queues
  /\ recv_result' = ReceiveResult(e, "no_inbox", NoMessage)
  /\ UNCHANGED <<unitVars, entities, orchVars, inbox_order, bcast, history_result, queues, messages_db, sender, enqueued,
                 returned, receiver>>

\* mutant of ReceiveEmpty: QueueEmpty is not caught
ReceiveEmpty_raises(e) ==
  /\ e \in DOMAIN queues
  /\ queues[e] = <<>>
  /\ recv_result' = ReceiveResult(e, "raised", NoMessage)
  /\ UNCHANGED <<unitVars, entities, orchVars, inbox_order, bcast, history_result, queues, messages_db, sender, enqueued,
                 returned, receiver>>

\* MessageBus.receive(e) without timeout on an empty inbox: get_nowait raises
\* QueueEmpty, which is caught: return None
ReceiveEmpty(e) ==
  /\ e \in DOMAIN queues
  /\ queues[e] = <<>>
  /\ recv_result' = ReceiveResult(e, "empty", NoMessage)
  /\ UNCHANGED <<unitVars, entities, orchVars, inbox_order, bcast, history_result, queues, messages_db, sender, enqueued,
                 returned, receiver>>

\* MessageBus.receive(e, timeout): wait_for(queue.get(), timeout) is awaited
ReceiveWait(e) ==
  /\ e \in DOMAIN queues
  /\ receiver[e].pc = "idle"
  /\ receiver' = [receiver EXCEPT ![e].pc = "waiting"]
  /\ UNCHANGED <<unitVars, entities, orchVars, inbox_order, bcast, history_result, queues, messages_db, sender, enqueued,
                 returned, recv_result>>

\* queue.get() of the waiting receive call completes with the head of its Queue
\* (the inbox, or the Queue object that was removed from the dict meanwhile)
WaitGet(e) ==
  \/ /\ receiver[e].pc = "waiting"
     /\ queues[e] # <<>>
     /\ queues' = [queues EXCEPT ![e] = Tail(@)]
     /\ returned' = [returned EXCEPT ![e] = Append(@, Head(queues[e]))]
     /\ recv_result' = ReceiveResult(e, "message", Head(queues[e]))
     /\ receiver' = [receiver EXCEPT ![e] = NoReceive]
     /\ UNCHANGED <<unitVars, entities, orchVars, inbox_order, bcast, history_result, messages_db, sender, enqueued>>
  \/ /\ receiver[e].pc = "orphaned"
     /\ receiver[e].q # <<>>
     /\ recv_result' = ReceiveResult(e, "message", Head(receiver[e].q))
     /\ receiver' = [receiver EXCEPT ![e] = NoReceive]
     /\ UNCHANGED <<unitVars, entities, orchVars, inbox_order, bcast, history_result, queues, messages_db, sender, enqueued, returned>>

\* the timeout of the waiting receive call expires: TimeoutError is caught, return None
WaitTimeout(e) ==
  /\ receiver[e].pc \in {"waiting", "orphaned"}
  /\ recv_result' = ReceiveResult(e, "timeout", NoMessage)
  /\ receiver' = [receiver EXCEPT ![e] = NoReceive]
  /\ UNCHANGED <<unitVars, entities, orchVars, inbox_order, bcast, history_result, queues, messages_db, sender, enqueued, returned>>

\* MessageBus.broadcast(from_id, content) is called: the iteration over _queues
\* begins and runs up to the first awaited send
Broadcast(from) ==
  /\ bcast.pc = "init"
  /\ bcast' = next_recipient(
       [NoBroadcast EXCEPT !.from_id = from, !.used = Len(inbox_order),
                           !.kept = (DOMAIN queues) \ {from}], inbox_order)
  /\ UNCHANGED <<unitVars, entities, orchVars, queues, messages_db, sender, enqueued, returned,
                 receiver, recv_result, inbox_order, history_result>>

\* the INSERT of the broadcast's current send is committed
BroadcastPersistCommit ==
  /\ bcast.pc = "persist"
  /\ Len(bcast.sent) <= MaxBroadcastSends
  /\ messages_db' = persist_message(messages_db, bcast.msg)
  /\ bcast' = [bcast EXCEPT !.pc = "persisted"]
  /\ UNCHANGED <<unitVars, entities, orchVars, queues, sender, enqueued, returned,
                 receiver, recv_result, inbox_order, history_result>>

\* the durable store raises inside the broadcast's current send: the exception
\* leaves broadcast
BroadcastPersistFail ==
  /\ bcast.pc = "persist"
  /\ Len(bcast.sent) <= MaxBroadcastSends
  /\ bcast' = [bcast EXCEPT !.pc = "failed"]
  /\ UNCHANGED <<unitVars, entities, orchVars, queues, messages_db, sender, enqueued, returned,
                 receiver, recv_result, inbox_order, history_result>>

\* the broadcast's current send enqueues (or only logs) and returns; the loop
\* takes the next key of the dict
BroadcastDeliver ==
  /\ bcast.pc = "persisted"
  /\ queues' = deliver(queues, bcast.msg)
  /\ enqueued' = IF bcast.msg.to_id \in DOMAIN queues
                 THEN [enqueued EXCEPT ![bcast.msg.to_id] = Append(@, bcast.msg)]
                 ELSE enqueued
  /\ bcast' = next_recipient(bcast, inbox_order)
  /\ UNCHANGED <<unitVars, entities, orchVars, messages_db, sender, returned,
                 receiver, recv_result, inbox_order, history_result>>

\* MessageBus.get_history(entity_id, limit) returns its rows
GetHistory(e, limit) ==
  /\ history_result' =
       [entity |-> e, limit |-> limit, rows |-> get_history(messages_db, e, limit)]
  /\ UNCHANGED <<unitVars, entities, orchVars, queues, messages_db, sender, enqueued, returned,
                 receiver, recv_result, inbox_order, bcast>>

InitBusSpec ==
  /\ entities = InitEntities
  /\ InitOrch
  /\ InitBus

NextBus ==
  \/ \E e \in BusIds : CreateInbox(e)
  \/ \E e \in BusIds : RemoveInbox(e)
  \/ \E s \in Senders, from \in BusIds, to \in BusIds : Send(s, from, to)
  \/ \E s \in Senders : PersistCommit(s)
  \/ \E s \in Senders : PersistFail(s)
  \/ \E s \in Senders : Deliver(s)
  \/ \E e \in BusIds : Receive(e)
  \/ \E e \in BusIds : ReceiveNoInbox(e)
  \/ \E e \in BusIds : ReceiveEmpty(e)
  \/ \E e \in BusIds : ReceiveWait(e)
  \/ \E e \in BusIds : WaitGet(e)
  \/ \E e \in BusIds : WaitTimeout(e)

SpecBus == InitBusSpec /\ [][NextBus]_vars

(* ---------------- MessageBus.broadcast among inbox changes -------------- *)
NextBroadcast ==
  \/ \E e \in EntityIds : CreateInbox(e)
  \/ \E e \in EntityIds : RemoveInbox(e)
  \/ \E from \in EntityIds : Broadcast(from)
  \/ BroadcastPersistCommit
  \/ BroadcastPersistFail
  \/ BroadcastDeliver

SpecBroadcast == InitBusSpec /\ [][NextBroadcast]_vars

(* ------------- MessageBus.get_history among sends and receives ---------- *)
NextHistory ==
  \/ \E s \in Senders, from \in EntityIds, to \in EntityIds : Send(s, from, to)
  \/ \E s \in Senders : PersistCommit(s)
  \/ \E s \in Senders : PersistFail(s)
  \/ \E s \in Senders : Deliver(s)
  \/ \E e \in EntityIds : Receive(e)
  \/ \E e \in EntityIds, limit \in 0..MaxLimit : GetHistory(e, limit)

SpecHistory == InitBusSpec /\ [][NextHistory]_vars

(* ================= run_conversation: the messages of a run ============ *)
\* A message is a sequence of tokens: words, the end marker, NL for white
\* space.  The text handed to engine.chat is a message plus the reminder the
\* loop appends to it.
CONVERSATION_END_SIGNAL == "[VEDA]"
\* the max_turns arguments the runs are started with
TurnBudgets == {1, 6, 8}
InitiatorMessages == {<<"hello">>}
\* the responses engine.chat returns
Responses ==
  {<<"hi">>, <<"ok">>, <<"bye", NL, CONVERSATION_END_SIGNAL>>,
   <<CONVERSATION_END_SIGNAL, NL, "bye", CONVERSATION_END_SIGNAL, NL>>}

\* CONVERSATION_END_SIGNAL in response
has_end_signal(response) == \E i \in 1..Len(response) : response[i] = CONVERSATION_END_SIGNAL

\* clean_response: response.replace(CONVERSATION_END_SIGNAL, "").strip() when
\* the marker is in the response, else the response as it is
clean_response(response) ==
  IF has_end_signal(response)
    THEN strip(SelectSeq(response, LAMBDA tok : tok # CONVERSATION_END_SIGNAL))
    ELSE response

\* turn_msg: current_message, with the reminder the loop appends
turn_msg(current_message, turn, max_turns) ==
  LET remaining == max_turns - turn
  IN [message |-> current_message,
      reminder |-> IF remaining <= 3 THEN "final"
                   ELSE IF remaining <= max_turns \div 2 THEN "half"
                   ELSE "none",
      remaining |-> remaining]

\* mutant of chat_request: engine2 is asked on every turn
chat_request_engine2(r, current_message) ==
  [to |-> r.a2, sender_id |-> r.a1, turn |-> r.actual_turns,
   input |-> turn_msg(current_message, r.actual_turns, r.max_turns)]

\* the engine.chat(turn_msg, sender_id) call of the turn run r is entering
chat_request(r, current_message) ==
  [to |-> IF r.actual_turns % 2 = 0 THEN r.a2 ELSE r.a1,
   sender_id |-> IF r.actual_turns % 2 = 0 THEN r.a1 ELSE r.a2,
   turn |-> r.actual_turns,
   input |-> turn_msg(current_message, r.actual_turns, r.max_turns)]

\* the loop body after engine.chat returned `response`: the clean response is
\* recorded and becomes current_message; if the loop goes on, the next chat
\* request is issued with it
forwarded(c, response) ==
  LET d == dialogue[c]
      clean == clean_response(response)
  IN [dialogue EXCEPT ![c] =
        [initiator_message |-> d.initiator_message,
         current_message |-> clean,
         requests |-> IF conv'[c].pc = "turn"
                        THEN Append(d.requests, chat_request(conv'[c], clean))
                        ELSE d.requests,
         responses |-> Append(d.responses, clean),
         pending |-> <<>>]]

\* run_conversation(x, y, msg, mt) up to the first engine.chat
DialogueStart(c, x, y, mt, msg) ==
  /\ run_conversation_call(c, x, y, mt)
  /\ dialogue' = [dialogue EXCEPT ![c] =
       [initiator_message |-> msg, current_message |-> msg,
        requests |-> <<chat_request(conv'[c], msg)>>,
        responses |-> <<>>, pending |-> <<>>]]
  /\ UNCHANGED <<memVars, charVars, engVars, genVars, recallVars, api,
                 human, world_events, busVars, wmVars, autoVars>>

\* engine.chat got `response` from _call_claude
DialogueTurnReturn(c, response) ==
  /\ turn_return(c, has_end_signal(response))
  /\ dialogue' = IF conv'[c].pc = "chat_reflect"
                   THEN [dialogue EXCEPT ![c].pending = response]
                   ELSE forwarded(c, response)
  /\ UNCHANGED <<memVars, charVars, engVars, genVars, recallVars, api,
                 entities, ev, human, world_events, busVars, wmVars, autoVars>>

\* the threshold reflection inside engine.chat is over: chat returns the response
DialogueReflectDone(c) ==
  /\ chat_reflect_done(c)
  /\ dialogue' = forwarded(c, dialogue[c].pending)
  /\ UNCHANGED <<memVars, charVars, engVars, genVars, recallVars, api,
                 entities, ev, human, world_events, busVars, wmVars, autoVars>>

NextDialogue ==
  \/ \E x \in Agents, mt \in TurnBudgets, msg \in InitiatorMessages :
       \E y \in Agents \ {x} : DialogueStart(1, x, y, mt, msg)
  \/ \E c \in Convs, response \in Responses : DialogueTurnReturn(c, response)
  \/ \E c \in Convs : DialogueReflectDone(c)
  \/ \E c \in Convs : TurnFail(c)
  \/ \E c \in Convs : End1Done(c)
  \/ \E c \in Convs : End2Done(c)
  \/ \E c \in Convs : EventDone(c)
  \/ StopCommand

\* one run_conversation call with its messages followed
SpecDialogue == Init /\ [][NextDialogue]_vars

(* ========== the message and conversation API, unknown ids ============= *)
\* number of calls on the API that are followed
MaxApiCalls == 2
\* the keys of self.agents: a0 is an agent whose loading failed between
\* `self.agents[id] = agent` and _create_engine (the exception is logged)
agents == Agents \cup {"a0"}
\* the keys of self.conversation_engines
conversation_engines == Agents
\* the ids the API is called with
ApiIds == agents \cup {"ghost"}

\* mutant of not_found: a failed lookup makes the call return nothing
not_found_silent(agent_ids, engine_ids) ==
  IF \E id \in agent_ids : id \notin agents THEN "returned_none"
  ELSE IF \E id \in engine_ids : id \notin conversation_engines THEN "returned_none"
  ELSE "found"

\* the lookups at the start of handle_human_message, handle_agent_to_agent and
\* run_conversation: self.agents.get for agent_ids, then
\* self.conversation_engines.get for engine_ids, each raising ValueError on None
not_found(agent_ids, engine_ids) ==
  IF \E id \in agent_ids : id \notin agents THEN "ValueError: agent not found"
  ELSE IF \E id \in engine_ids : id \notin conversation_engines
    THEN "ValueError: no conversation engine"
  ELSE "found"

\* the record of one API call
ApiCall(op, ids, outcome) ==
  [calls |-> api.calls + 1, op |-> op, ids |-> ids, outcome |-> outcome]

\* handle_human_message(human_id, target, message) when a lookup fails
HumanMessageNotFound(target) ==
  /\ api.calls < MaxApiCalls
  /\ not_found({target}, {target}) # "found"
  /\ api' = ApiCall("handle_human_message", <<target>>, not_found({target}, {target}))
  /\ UNCHANGED <<entities, orchVars, busVars, memVars, charVars, engVars, genVars, recallVars,
                 dialogue>>

\* handle_agent_to_agent(from_id, to_id, message): the lookups, then
\* to_engine.chat from its call to its return
AgentToAgent(from_id, to_id) ==
  /\ api.calls < MaxApiCalls
  /\ LET outcome == not_found({from_id, to_id}, {to_id})
     IN IF outcome = "found"
        THEN /\ api' = ApiCall("handle_agent_to_agent", <<from_id, to_id>>, "returned")
             /\ engine' = [engine EXCEPT ![to_id] =
                  IF reflection_due(chat_returned(@))
                    THEN reflection_recorded(chat_returned(@)) ELSE chat_returned(@)]
        ELSE /\ api' = ApiCall("handle_agent_to_agent", <<from_id, to_id>>, outcome)
             /\ UNCHANGED engine
  /\ UNCHANGED <<entities, interrupt_events, ev, conv, human, world_events, autoVars, wmVars,
                 busVars, memVars, charVars, engVars, genVars, recallVars, dialogue>>

\* run_conversation(agent1_id, agent2_id, message, max_turns) when a lookup fails
RunConversationNotFound(agent1_id, agent2_id) ==
  /\ api.calls < MaxApiCalls
  /\ not_found({agent1_id, agent2_id}, {agent1_id, agent2_id}) # "found"
  /\ api' = ApiCall("run_conversation", <<agent1_id, agent2_id>>,
                    not_found({agent1_id, agent2_id}, {agent1_id, agent2_id}))
  /\ UNCHANGED <<entities, orchVars, busVars, memVars, charVars, engVars, genVars, recallVars,
                 dialogue>>

NextBoundary ==
  \/ \E x \in Agents, mt \in 1..MaxTurnsArg :
       \E y \in Agents \ {x} : RunConversation(1, x, y, mt)
  \/ \E c \in Convs, hasEnd \in BOOLEAN : TurnReturn(c, hasEnd)
  \/ \E c \in Convs : ChatReflectDone(c)
  \/ \E c \in Convs : End1Done(c)
  \/ \E c \in Convs : End2Done(c)
  \/ \E c \in Convs : EventDone(c)
  \/ StopCommand
  \/ AddMessage(1)
  \/ \E target \in ApiIds : HumanMessageNotFound(target)
  \/ \E from_id \in ApiIds, to_id \in ApiIds : AgentToAgent(from_id, to_id)
  \/ \E agent1_id \in ApiIds, agent2_id \in ApiIds : RunConversationNotFound(agent1_id, agent2_id)

\* API calls with known and unknown ids while a conversation runs
SpecBoundary == Init /\ [][NextBoundary]_vars

(* ============ run_conversation: does every run end? =================== *)
\* the steps of the runs that follow from a call once it is made: the return
\* or failure of a generation call, the end of a reflection pass, the steps of
\* the teardown
RunProgress ==
  \/ \E c \in Convs, hasEnd \in BOOLEAN : TurnReturn(c, hasEnd)
  \/ \E c \in Convs : ChatReflectDone(c)
  \/ \E c \in Convs : TurnFail(c)
  \/ \E c \in Convs : End1Done(c)
  \/ \E c \in Convs : End2Done(c)
  \/ \E c \in Convs : EventDone(c)

NextRuns ==
  \/ \E c \in Convs, x \in Agents, mt \in 1..MaxTurnsArg :
       \E y \in Agents \ {x} : RunConversation(c, x, y, mt)
  \/ RunProgress

\* run_conversation calls in which every awaited call eventually returns or
\* raises (the event loop resumes a task whose await is over)
SpecRuns == Init /\ [][NextRuns]_vars /\ WF_vars(RunProgress)

\* one agent's episodic memory under add_episode, decay_memories and
\* daily_maintenance calls at advancing instants
NextEpisodic ==
  \/ \E t \in Instants : Tick(t)
  \/ \E tone \in Tones, imp \in Importances : AddEpisode(tone, imp)
  \/ \E rate \in Rates : DecayMemories(rate)
  \/ \E rate \in Rates : DailyMaintenance(rate)

SpecEpisodic == Init /\ [][NextEpisodic]_vars

\* the recall interface of one agent's episodic memory
SpecRecall == Init /\ [][NextRecall]_vars

\* the belief list of one character under the four belief methods
NextCharacter ==
  \/ \E b \in Texts, c \in Convictions : AddBelief(b, c)
  \/ \E b \in Texts : RemoveBelief(b)
  \/ \E b \in Texts, d \in BeliefDeltas : EvolveBelief(b, d)
  \/ \E b \in Texts, n \in Texts : TransformBelief(b, n)

SpecCharacter == Init /\ [][NextCharacter]_vars

\* one agent's character and memory under a sequence of reflection records
NextReflection ==
  \E i \in 1..Len(Reflections) : ApplyReflection(Reflections[i])

SpecReflection == Init /\ [][NextReflection]_vars

\* one reflect call on a conversation, for every text the generator can return
NextReflect ==
  \/ \E messages \in Conversations : ReflectCall(messages)
  \/ ReflectNoResponse
  \/ \E raw_response \in Outputs :
       \E i \in IF _parse_reflection_json(raw_response) = "dict"
                  THEN 1..Len(Reflections) ELSE {1} :
         ReflectApply(raw_response, Reflections[i])

SpecReflect == Init /\ [][NextReflect]_vars

\* the engines of the agents under chat, end_conversation and reset calls in
\* any order (handle_human_message, run_conversation, the CLI and stop make them)
NextEngine ==
  \/ \E a \in Agents : EngineChat(a)
  \/ \E a \in Agents : EngineEndConversation(a)
  \/ \E a \in Agents : EngineReset(a)

SpecEngine == Init /\ [][NextEngine]_vars

\* generation calls of both kinds against a generator that can fail each attempt
NextGeneration ==
  \/ \E g \in GenCalls, kind \in CallKinds : CallClaude(g, kind)
  \/ \E g \in GenCalls : CreateReturns(g)
  \/ \E g \in GenCalls, error \in APIErrors : CreateRaises(g, error)
  \/ \E g \in GenCalls : SleepEnds(g)

SpecGeneration == Init /\ [][NextGeneration]_vars

(* ============================== properties ============================= *)
\* the participants of run c
Participants(c) == {conv[c].a1, conv[c].a2}
\* one of the two interrupt events of run c is set
AnyFlag(c) == ev[c][1] \/ ev[c][2]
\* the turn loop of run c is over and its teardown has begun or completed
LoopEnded(c) == conv[c].pc \in {"end1", "end2", "event", "done"}
\* the world events recorded for run c
EventsOf(c) == {i \in 1..Len(world_events) : world_events[i].run = c}

\* C1: no agent ever has two chat requests in flight at the same time.
C1_OneChatInFlight == \A a \in Agents : InFlight(a) <= 1

\* C2: a human message addressed to a participant of a run that is inside its
\* turn loop leaves both interrupt flags of that run set.
C2_BothFlagsSet ==
  [][\A h \in Humans, t \in Agents :
       HumanMessage(h, t) =>
         \A c \in Convs : (InLoop(c) /\ t \in Participants(c)) => (ev'[c][1] /\ ev'[c][2])]_vars

\* C3: a human message never waits for a conversation: once the interrupt has
\* been signalled, entering the agent's reply generation is possible in every
\* state, whatever the runs the agent takes part in are doing.
C3_HumanNeverWaits ==
  \A h \in Humans : human[h].pc = "sleep" => ENABLED HumanChatStart(h)

\* C3 witness: the reply to the human is being generated while an interrupted
\* run of the same agent still has its turn in flight.
C3_Witness ==
  \E h \in Humans, c \in Convs :
    /\ human[h].pc = "call" /\ human[h].target \in Participants(c)
    /\ conv[c].pc = "turn" /\ AnyFlag(c)

\* C4: interrupt flags act only at turn boundaries: a turn in flight with a flag
\* set is not cut short (it ends counted, or by the failure of its own
\* generation call), no turn starts with a flag set, the loop left at such a
\* boundary is marked interrupted, and the recorded reason is then interrupted.
C4_InterruptAtTurnBoundary ==
  [][\A c \in Convs :
       LET r == conv[c]
           rn == conv'[c]
       IN /\ (rn.pc = "turn" /\ (r.pc # "turn" \/ rn.actual_turns # r.actual_turns))
               => ~(ev'[c][1] \/ ev'[c][2])
          /\ (r.pc \in LoopPcs /\ AnyFlag(c) /\ rn.pc # r.pc)
               => \/ rn.pc = "failed"
                  \/ rn.pc = "chat_reflect" /\ rn.actual_turns = r.actual_turns
                  \/ rn.pc = "end1" /\ rn.actual_turns = r.actual_turns + 1
          /\ (r.pc \in LoopPcs /\ rn.pc = "end1")
               => (rn.interrupted <=>
                     (AnyFlag(c) /\ ~rn.finished /\ rn.actual_turns < rn.max_turns))
          /\ (r.pc = "event" /\ rn.pc = "done" /\ r.interrupted)
               => /\ Len(world_events') = Len(world_events) + 1
                  /\ world_events'[Len(world_events')].reason = "interrupted"
                  /\ world_events'[Len(world_events')].turns = r.actual_turns]_vars

\* C4 witness: a run whose flag was set during a turn: the turn was counted,
\* the next one never started and the run ended interrupted.
C4_Witness ==
  \E c \in Convs :
    /\ conv[c].pc = "done" /\ conv[c].interrupted
    /\ conv[c].actual_turns >= 1 /\ conv[c].actual_turns < conv[c].max_turns

\* C5: a run with no end marker and no interrupt flag set performs exactly
\* max_turns turns and records the reason limit.
C5_LimitReached ==
  \A c \in Convs :
    (LoopEnded(c) /\ ~conv[c].finished /\ ~AnyFlag(c)) =>
      /\ conv[c].actual_turns = conv[c].max_turns
      /\ conv[c].pc = "done" =>
           \E i \in EventsOf(c) : /\ world_events[i].turns = conv[c].max_turns
                                  /\ world_events[i].reason = "limit"

\* C5 witness: a completed run of the largest turn budget without marker or interrupt.
C5_Witness ==
  \E c \in Convs :
    /\ conv[c].pc = "done" /\ ~conv[c].finished /\ ~AnyFlag(c)
    /\ conv[c].max_turns = MaxTurnsArg

\* C6: a run ended by the end marker in its k-th response (no interrupt) stops
\* after k turns with the reason natural, for every k up to max_turns.
C6_MarkerIsNatural ==
  \A c \in Convs :
    (conv[c].pc = "done" /\ conv[c].finished /\ ~AnyFlag(c)) =>
      \A i \in EventsOf(c) : /\ world_events[i].turns = conv[c].actual_turns
                             /\ world_events[i].reason = "natural"

C8_PartnerIffInConversation ==
  \A id \in DOMAIN entities :
    (entities[id].current_conversation_with # None) <=> (entities[id].status = "in_conversation")

\* C9: update_status with a token outside VALID_STATUSES leaves the entity's
\* status and partner unchanged.
C9_InvalidTokenIgnored ==
  [][\A id \in EntityIds, cw \in EntityIds \cup {None} :
       UpdateStatus(id, "bogus", cw) => entities' = entities]_vars

\* C10: every message in a mailbox is already in the durable log; a message sent
\* to a recipient without inbox is in the log and in no mailbox; a message whose
\* persistence failed is in no mailbox.
C10_PersistBeforeDeliver ==
  /\ \A e \in DOMAIN queues : Range(queues[e]) \subseteq Range(messages_db)
  /\ \A s \in Senders :
       /\ sender[s].pc = "no_inbox" =>
            /\ sender[s].msg \in Range(messages_db)
            /\ \A e \in DOMAIN queues : sender[s].msg \notin Range(queues[e])
       /\ sender[s].pc = "failed" =>
            /\ sender[s].msg \notin Range(messages_db)
            /\ \A e \in DOMAIN queues : sender[s].msg \notin Range(queues[e])
       /\ sender[s].pc = "delivered" => sender[s].msg \in Range(messages_db)

\* C10 witness: one message was logged for a recipient without inbox while
\* another one, logged too, waits in a mailbox.
C10_Witness ==
  \E s, t \in Senders :
    /\ sender[s].pc = "no_inbox" /\ sender[s].msg \in Range(messages_db)
    /\ sender[t].pc = "delivered"
    /\ \E e \in DOMAIN queues : sender[t].msg \in Range(queues[e])

\* C11: for every live inbox the messages receive has returned, followed by the
\* messages still queued, are exactly the messages enqueued, in enqueue order
\* (none returned twice, none skipped); and when a send call was issued after
\* another one to the same recipient had returned, the recipient receives the
\* earlier message first.
C11_FifoPerRecipient ==
  /\ \A e \in DOMAIN queues :
       /\ returned[e] \o queues[e] = enqueued[e]
       /\ \A i, j \in 1..Len(enqueued[e]) : i # j => enqueued[e][i] # enqueued[e][j]
  /\ \A s1, s2 \in Senders :
       (s1 \in sender[s2].after /\ sender[s1].msg.to_id = sender[s2].msg.to_id) =>
         \A e \in DOMAIN queues :
           LET i1 == IndexOf(enqueued[e], sender[s1].msg)
               i2 == IndexOf(enqueued[e], sender[s2].msg)
           IN (i1 > 0 /\ i2 > 0) => i1 < i2

\* C11 witness: two sends issued one after the other to the same recipient, and
\* both messages received.
C11_Witness ==
  \E e \in DOMAIN queues, s1, s2 \in Senders :
    /\ s1 \in sender[s2].after
    /\ returned[e] = <<sender[s1].msg, sender[s2].msg>>

\* C12: a receive call never raises; it returns None when the entity has no
\* inbox, when called without timeout on an empty inbox, and when its wait
\* times out, and a call that returns None leaves every mailbox and the durable
\* log as they were.
C12_ReceiveNeverRaises ==
  [][recv_result' # recv_result =>
       LET e == recv_result'.ent
           why == recv_result'.why
       IN /\ why \in {"message", "no_inbox", "empty", "timeout"}
          /\ why # "message" =>
               /\ recv_result'.msg = NoMessage
               /\ queues' = queues
               /\ messages_db' = messages_db
          /\ (receiver' = receiver /\ e \notin DOMAIN queues) => why = "no_inbox"
          /\ (receiver' = receiver /\ e \in DOMAIN queues /\ queues[e] = <<>>) => why = "empty"
          /\ (receiver[e].pc = "waiting" /\ receiver'[e].pc = "idle" /\ queues' = queues)
               => why = "timeout"]_vars

\* C12 witness: a waiting receive call timed out and returned None while a
\* message sits in a live mailbox and in the durable log.
C12_Witness ==
  /\ recv_result.why = "timeout"
  /\ \E e \in DOMAIN queues : queues[e] # <<>>
  /\ messages_db # <<>>

\* number of send calls the broadcast made for recipient e
SendsTo(e) == Cardinality({i \in 1..Len(bcast.sent) : bcast.sent[i] = e})

\* C13: when a broadcast call has ended, by returning or by raising out of
\* its loop, it has made exactly one send to every entity other than the
\* sender whose mailbox was live for the whole call, at most one send to any
\* entity, and none to the sender, whatever inboxes other tasks created or
\* removed between its sends.
C13_BroadcastExactlyOnce ==
  bcast.pc \in {"done", "raised"} =>
    /\ \A e \in bcast.kept : SendsTo(e) = 1
    /\ \A e \in EntityIds : SendsTo(e) <= 1
    /\ SendsTo(bcast.from_id) = 0

\* the rows of the durable log in which entity e is sender or recipient
Involving(e) == {m \in Range(messages_db) : m.from_id = e \/ m.to_id = e}

\* C14 (as stated): a history call returns rows of the durable log that all
\* involve the entity, at most limit of them, oldest first.
C14_HistoryOldestFirst ==
  [][history_result' # history_result =>
       LET h == history_result'
       IN /\ Range(h.rows) \subseteq Involving(h.entity)
          /\ Len(h.rows) <= h.limit
          /\ \A i, j \in 1..Len(h.rows) :
               i < j => h.rows[i].message_id < h.rows[j].message_id]_vars

\* C14 (amended): a history call returns rows of the durable log, whatever the
\* mailboxes hold, that all involve the entity; it returns the limit most
\* recent of them (all of them when there are fewer), newest first.
C14_HistoryNewestFirst ==
  [][history_result' # history_result =>
       LET h == history_result'
           all == Involving(h.entity)
       IN /\ Range(h.rows) \subseteq all
          /\ Len(h.rows) = IF Cardinality(all) < h.limit THEN Cardinality(all) ELSE h.limit
          /\ \A i, j \in 1..Len(h.rows) :
               i < j => h.rows[i].message_id > h.rows[j].message_id
          /\ \A m \in all \ Range(h.rows), r \in Range(h.rows) :
               m.message_id < r.message_id]_vars

\* C14 witness: two messages of one entity were logged in the reverse of their
\* construction order, one of them has left its mailbox again, and a history
\* call with limit 1 returned one row, another call both rows.
C14_Witness ==
  /\ Len(messages_db) = 2 /\ messages_db[1].message_id = 2
  /\ \E e \in EntityIds :
       /\ Cardinality(Involving(e)) = 2
       /\ history_result.entity = e
       /\ Len(history_result.rows) = history_result.limit
       /\ history_result.limit \in {1, 2}
       /\ \A q \in DOMAIN queues : history_result.rows[1] \notin Range(queues[q])
       /\ returned[history_result.rows[1].to_id] # <<>>

\* C15: a loop that wakes while its agent is in_conversation requests no
\* decision and leaves the agent's status and partner alone; a loop that wakes
\* otherwise has set the status thinking when the decision request is issued.
C15_BusySkipsCycle ==
  [][\A a \in Agents :
       (auto[a].pc = "sleep" /\ auto'[a].cycles = auto[a].cycles + 1) =>
         IF entities[a].status = "in_conversation"
         THEN /\ auto'[a].pc = "sleep" /\ auto'[a].skipped
              /\ entities'[a] = entities[a]
         ELSE /\ auto'[a].pc = "decide" /\ ~auto'[a].skipped
              /\ entities'[a].status = "thinking"]_vars

\* C15 witness: a loop has skipped a cycle because another loop's conversation
\* holds its agent, and that other loop had set thinking and asked for a decision.
C15_Witness ==
  \E a, b \in Agents :
    /\ a # b
    /\ auto[a].skipped /\ auto[a].pc = "sleep"
    /\ entities[a].status = "in_conversation"
    /\ auto[b].pc = "conversing" /\ conv[auto[b].run].a2 = a

\* C16: when a cycle that was not skipped ends, whatever the decision was, the
\* agent's status is idle, unless a conversation changed the status during
\* the cycle.
C16_IdleAfterCycle ==
  [][\A a \in Agents :
       (InCycle(a) /\ auto'[a].pc = "sleep" /\ ~auto[a].touched) =>
         entities'[a].status = "idle"]_vars

\* C17: an autonomy loop ends only from its sleep, never from inside a cycle,
\* and stop() returns only after every autonomy loop has ended.
C17_CancelOnlyAtSleep ==
  [][/\ \A a \in Agents :
          (auto'[a].pc = "cancelled" /\ auto[a].pc # "cancelled") => auto[a].pc = "sleep"
     /\ stop' = "stopped" => \A a \in Agents : auto'[a].pc = "cancelled"]_vars

\* C18: when stop() has returned no entity has the status in_conversation and
\* no interrupt event is registered.
C18_StoppedMeansTornDown ==
  stop = "stopped" =>
    /\ \A id \in DOMAIN entities : entities[id].status # "in_conversation"
    /\ interrupt_events = <<>>

\* C19: a compress_if_needed call summarizes if and only if the token count is
\* at least 80% of the cap and at least 4 messages are buffered (otherwise it
\* returns False and changes nothing); it summarizes the oldest floor(n/2)
\* messages, and when the summary arrives it appends that one result to the
\* rolling summary and removes exactly the summarized messages, the others
\* keeping their order.
C19_CompressOldestHalf ==
  [][LET n == Len(wm.messages)
         trigger == wm.token_count * 100 >= max_tokens * COMPRESSION_THRESHOLD /\ n >= 4
     IN /\ (comp.pc = "idle" /\ comp'.pc = "summarizing") =>
             /\ trigger
             /\ comp'.to_compress = SubSeq(wm.messages, 1, n \div 2)
             /\ wm' = wm
        /\ (comp.pc = "idle" /\ compress_result' # compress_result) =>
             /\ ~trigger
             /\ compress_result' \in {"false_below", "false_few"}
             /\ n < 4 => compress_result' # "true"
             /\ wm' = wm
        /\ (comp.pc = "summarizing" /\ compress_result' = "true" /\ comp'.pc = "idle") =>
             /\ Len(wm'.summary) = Len(wm.summary) + 1
             /\ SubSeq(wm'.summary, 1, Len(wm.summary)) = wm.summary
             /\ wm'.summary[Len(wm'.summary)].of = comp.to_compress
             /\ wm'.messages = SubSeq(wm.messages, Len(comp.to_compress) + 1, n)]_vars

\* C20: when the summarization call fails, compress_if_needed returns False
\* without raising and its return leaves the message buffer, the rolling
\* summary and the token count as they are.
C20_FailureKeepsBuffer ==
  [][(comp.pc = "summarizing" /\ comp'.pc = "idle" /\ compress_result' # "true") =>
       /\ compress_result' = "false_failed"
       /\ wm'.messages = wm.messages
       /\ wm'.summary = wm.summary
       /\ wm'.token_count = wm.token_count]_vars

\* C20 witness: a call over the threshold with at least 4 messages failed and
\* the buffer still holds them, after an earlier call had compressed.
C20_Witness ==
  /\ compress_result = "false_failed" /\ comp.pc = "idle"
  /\ Len(wm.messages) >= 4
  /\ wm.token_count * 100 >= max_tokens * COMPRESSION_THRESHOLD
  /\ wm.summary # <<>>

\* C21: a decay application (any rate >= 0, any elapsed time) leaves every
\* episode's current_importance at or above 0 and at or below its value before
\* the application, and never changes the as-recorded importance.
C21_DecayNonIncreasing ==
  [][decays' = decays + 1 =>
       \A id \in DOMAIN episodes' :
         /\ id \in DOMAIN episodes
         /\ episodes'[id].current_importance >= 0
         /\ episodes'[id].current_importance <= episodes[id].current_importance
         /\ episodes'[id].importance = episodes[id].importance]_vars

\* a decay has driven an episode of positive importance down to the floor
C21_Witness ==
  /\ decays > 0
  /\ \E id \in DOMAIN episodes :
       episodes[id].importance > 0 /\ episodes[id].current_importance = 0
  /\ \E id \in DOMAIN episodes :
       /\ episodes[id].current_importance > 0
       /\ episodes[id].current_importance < episodes[id].importance

\* C22: decay is idempotent for a fixed now: applying it a second time with
\* the same rate at the same instant changes no episode's current_importance.
C22_DecayIdempotent ==
  \A rate \in Rates :
    decay_rows(decay_rows(episodes, rate, now), rate, now)
      = decay_rows(episodes, rate, now)

\* C23 as stated: the maintenance job forgets an episode exactly when, as the
\* job finds it, its age exceeds 90 days and its current_importance is below 0.1.
C23_ForgetIffOldAndLow ==
  [][maintenances' = maintenances + 1 =>
       \A id \in DOMAIN episodes :
         (id \notin DOMAIN episodes')
           <=> /\ now - episodes[id].timestamp > 90
               /\ episodes[id].current_importance < 100]_vars

\* C23 amended: the maintenance job forgets an episode exactly when its age
\* exceeds 90 days and its current_importance, after the decay the job itself
\* applies first, is below 0.1; every episode it keeps carries that decayed value.
C23_ForgetIffOldAndLowAfterDecay ==
  [][maintenances' = maintenances + 1 =>
       \A id \in DOMAIN episodes :
         LET decayed == new_importance(episodes[id], decay_rate', now)
         IN /\ (id \notin DOMAIN episodes')
                 <=> (now - episodes[id].timestamp > 90 /\ decayed < 100)
            /\ id \in DOMAIN episodes'
                 => episodes'[id].current_importance = decayed]_vars

\* a maintenance job has run at day 91 and has forgotten the episode of day 0
\* while keeping one that is just as low but a day younger
C23_Witness ==
  /\ maintenances > 0
  /\ now = 91
  /\ episodes_added = 2
  /\ DOMAIN episodes = {2}
  /\ episodes[2].timestamp = 1
  /\ episodes[2].current_importance < 100

\* C24: an evolve call of any delta moves the belief's conviction by at most
\* 0.1 and keeps it within [0,1]; the belief is removed exactly when its
\* conviction after the clamps is below 0.1; and after any sequence of add,
\* remove, evolve and transform calls no listed belief is below 0.1.
C24_EvolveBounded ==
  /\ [][last_call'.op = "evolve_belief" =>
          LET text == last_call'.belief_text
              i == first_belief(character.beliefs, text)
          IN i # 0 =>
               LET before == character.beliefs[i].conviction
                   window == IF last_call'.delta > 100 THEN 100
                             ELSE IF last_call'.delta < -100 THEN -100
                             ELSE last_call'.delta
                   moved == before + window
                   after == IF moved > 1000 THEN 1000 ELSE IF moved < 0 THEN 0 ELSE moved
               IN /\ after - before <= 100 /\ before - after <= 100
                  /\ after >= 0 /\ after <= 1000
                  /\ IF after < 100
                       THEN /\ Len(character'.beliefs) = Len(character.beliefs) - 1
                            /\ \A j \in 1..Len(character'.beliefs) :
                                 character'.beliefs[j] =
                                   character.beliefs[IF j < i THEN j ELSE j + 1]
                       ELSE /\ Len(character'.beliefs) = Len(character.beliefs)
                            /\ character'.beliefs[i] = Belief(text, after)
                            /\ \A j \in 1..Len(character.beliefs) :
                                 j # i => character'.beliefs[j] = character.beliefs[j]]_vars
  /\ [](\A i \in 1..Len(character.beliefs) :
          /\ character.beliefs[i].conviction >= 100
          /\ character.beliefs[i].conviction <= 1000)

\* an evolve call of +5.0 has just moved a belief, and the belief stands 0.1
\* above the conviction add_belief gave it
C24_Witness ==
  /\ last_call.op = "evolve_belief"
  /\ last_call.delta = 5000
  /\ Len(character.beliefs) = 2
  /\ character.beliefs[2] = Belief(last_call.belief_text, 800)
  /\ character.beliefs[1].text # last_call.belief_text

\* a step that applies one reflection record
AppliesReflection == reflections' = reflections + 1 /\ last_call'.op = "apply_reflection"

\* the relationship updates of the record a step applies that the code does
\* not skip as template placeholders
AppliedUpdates ==
  LET ups == get(last_call'.reflection, "relationship_updates", <<>>)
  IN {i \in 1..Len(ups) : ups[i][1] \notin {"entity_id_here", "kisi_adi"}}

C26_RelationshipAdditive ==
  [][AppliesReflection =>
       \A i \in AppliedUpdates :
         LET ups == last_call'.reflection.relationship_updates
             e == ups[i][1]
             u == ups[i][2]
             old == IF e \in DOMAIN character.relationships
                      THEN character.relationships[e]
                      ELSE [trust |-> 500, familiarity |-> 0, sentiment |-> 0]
             within(v, lo, hi) == IF v < lo THEN lo ELSE IF v > hi THEN hi ELSE v
         IN /\ "trust_delta" \in DOMAIN u =>
                 character'.relationships[e].trust
                   = within(old.trust + u.trust_delta, 0, 1000)
            /\ "familiarity_delta" \in DOMAIN u =>
                 character'.relationships[e].familiarity
                   = within(old.familiarity + u.familiarity_delta, 0, 1000)
            /\ "sentiment_delta" \in DOMAIN u =>
                 character'.relationships[e].sentiment
                   = within(old.sentiment + u.sentiment_delta, -1000, 1000)]_vars

\* trust +0.1 has been applied twice to a counterpart that had no relationship:
\* the trust stands at the default 0.5 plus 0.2
C26_Witness ==
  /\ reflections = 2
  /\ last_call.op = "apply_reflection"
  /\ last_call.reflection = Reflections[8]
  /\ "Luna" \in DOMAIN character.relationships
  /\ character.relationships["Luna"].trust = 700

\* C27: relationship notes are appended, not replaced: after a relationship
\* update with a list of new notes the counterpart's note list is its previous
\* note list followed by every note of the update, in order.
C27_NotesAppended ==
  [][AppliesReflection =>
       \A i \in AppliedUpdates :
         LET ups == last_call'.reflection.relationship_updates
             e == ups[i][1]
             u == ups[i][2]
             notes_of(ch) == IF e \in DOMAIN ch.relationships
                               THEN ch.relationships[e].notes ELSE <<>>
         IN "new_notes" \in DOMAIN u =>
              notes_of(character')
                = notes_of(character) \o SelectSeq(u.new_notes, LAMBDA n : n # "")]_vars

\* C28: for any generator output that cannot be parsed as a structured record,
\* reflect completes without raising and applies a fallback record whose
\* episode summary is non-empty and whose tag list is empty: exactly one
\* episode is persisted and no mood, trait, belief, relationship or fact
\* mutation is applied.
C28_FallbackOnUnparsable ==
  [][(/\ reflecting.pc = "generating"
      /\ reflecting'.pc = "done"
      /\ reflecting'.result # None
      /\ _parse_reflection_json(reflecting'.raw_response) = None)
     => /\ reflecting'.result = "reflection"
        /\ last_call'.reflection.episode.summary # <<>>
        /\ last_call'.reflection.episode.tags = <<>>
        /\ episodes_added' = episodes_added + 1
        /\ DOMAIN episodes' = DOMAIN episodes \cup {episodes_added'}
        /\ episodes_added' \notin DOMAIN episodes
        /\ episodes'[episodes_added'].summary = last_call'.reflection.episode.summary
        /\ episodes'[episodes_added'].tags = <<>>
        /\ \A id \in DOMAIN episodes : episodes'[id] = episodes[id]
        /\ character' = character
        /\ facts' = facts]_vars

\* the generator answered with prose around braces that hold no JSON object;
\* reflect has returned the fallback record and one episode is stored
C28_Witness ==
  /\ reflecting.pc = "done"
  /\ reflecting.result = "reflection"
  /\ reflecting.raw_response = <<"x", "{", "x", "}">>
  /\ reflecting.conversation_messages = <<"m1", "m2", "m3", "m4">>
  /\ DOMAIN episodes = {1}
  /\ episodes[1].summary = <<"Conversation", "held:", "m2", "|", "m3", "|", "m4">>
  /\ character = CharacterState

\* C29: chat triggers a reflection pass exactly when the engine's turn count
\* reaches a positive multiple of N; end_conversation triggers one exactly when
\* at least one turn has occurred since the last triggered reflection; after
\* end_conversation no turn of the conversation is left unreflected.
C29_ReflectEveryNAndAtEnd ==
  [][\A a \in Agents :
       engine_log'[a] # engine_log[a] =>
         /\ engine_log'[a].op = "chat" =>
              (engine_log'[a].triggered
                 <=> (engine'[a].turn_count > 0 /\ engine'[a].turn_count % 3 = 0))
         /\ engine_log'[a].op = "end_conversation" =>
              /\ engine_log'[a].triggered <=> engine_log[a].unreflected > 0
              /\ engine_log'[a].unreflected = 0]_vars

\* C30: every generation call, for a turn and for a reflection alike, makes at
\* most 3 attempts; after a transient failure (rate-limit or timeout) on an
\* attempt before the last it retries after a backoff delay that doubles each
\* time; after a non-transient failure it makes no further attempt; a call that
\* exhausts its attempts fails.
C30_BoundedRetries ==
  \A g \in GenCalls :
    LET c == generation[g]
        attempts == IF c.pc = "init" THEN 0 ELSE c.attempt + 1
        transient(i) == c.errors[i] \in {"RateLimitError", "APITimeoutError"}
    IN /\ attempts <= 3
       /\ Len(c.errors) <= attempts
       /\ \A i \in 1..Len(c.errors) :
            IF transient(i)
              THEN /\ i <= Len(c.delays)
                   /\ c.delays[i] = (IF i = 1 THEN 1 ELSE 2 * c.delays[i - 1])
                   /\ (i < 3 /\ c.pc = "done") => attempts > i
              ELSE /\ i = Len(c.errors)
                   /\ attempts = i
                   /\ c.pc = "done" /\ c.outcome # "returned"
       /\ (c.pc = "done" /\ Len(c.errors) = 3) => c.outcome \in {"raised", "returned_none"}

\* C39: a recall, recall_about or important call never returns an episode that
\* forget has removed (the episodes saved so far that are no longer in the
\* episodes table), whether or not the removal from the similarity index
\* succeeded; after forget(id) the episode is not in the episodes table; and
\* recall with no or an empty index returns an empty list at once.
C39_RecallNeverForgotten ==
  [][ /\ (recall_result' # recall_result /\ recall_result'.pc = "done"
            /\ recall_result'.op \in {"recall", "recall_about", "important"})
        => recall_result'.ids \cap ((1..episodes_added') \ DOMAIN episodes') = {}
      /\ (recall_result' # recall_result /\ recall_result'.op = "forget")
        => recall_result'.arg \notin DOMAIN episodes'
      /\ (recall_result'.calls = recall_result.calls + 1 /\ recall_result'.op = "recall"
            /\ collection.ids = {})
        => (recall_result'.pc = "done" /\ recall_result'.ids = {}) ]_vars

\* C39 witness: a recall has returned episodes although the index named a
\* forgotten one, whose removal from the index had failed
C39_Witness ==
  /\ recall_result.op = "recall" /\ recall_result.pc = "done"
  /\ recall_result.ids # {}
  /\ \E id \in recall_result.queried : id \notin DOMAIN episodes /\ id \in collection.ids

\* C36: when a compress_if_needed call completes with a summary, every message
\* that is in the buffer at that moment and was not sent to the summarizer
\* (among them the messages other tasks appended during the call) is still in
\* the buffer afterwards.
C36_AddDuringCompressKept ==
  [][(comp.pc = "summarizing" /\ comp'.pc = "idle" /\ compress_result' = "true") =>
       \A i \in 1..Len(wm.messages) :
         (\A j \in 1..Len(comp.to_compress) : comp.to_compress[j] # wm.messages[i])
           => \E k \in 1..Len(wm'.messages) : wm'.messages[k] = wm.messages[i]]_vars

\* C40: the stored token estimate is the estimate of the rolling summary plus
\* the sum of the estimates of the buffered messages, in every state add,
\* compress_if_needed (successful or failed, also with adds and clears during
\* its summarization call) and clear can lead to.
C40_TokenCountConsistent ==
  wm.token_count = estimate_tokens(summary_words(wm.summary)) + messages_tokens(wm.messages)

\* C40 witness: a compression has just completed with a summary although
\* add_message ran during its summarization call (the latest message added is
\* not among the messages the call left in the buffer)
C40_Witness ==
  /\ compress_result = "true" /\ comp.pc = "idle"
  /\ wm.summary # <<>> /\ wm.messages # <<>>
  /\ wm.token_count > 0
  /\ \A i \in 1..Len(wm.messages) : wm.messages[i].id < wm.added

\* the reminder the loop appends to the message of turn t of a run of mt turns
ReminderOf(t, mt) ==
  IF mt - t <= 3 THEN "final" ELSE IF mt - t <= mt \div 2 THEN "half" ELSE "none"

\* the alternation, request count, forwarding and turn count of run c; the
\* input of a request is the message alone, or the message with its reminder
DialogueOf(c, annotated) ==
  LET d == dialogue[c]
      r == conv[c]
  IN r.pc \notin {"init", "failed"} =>
       /\ Len(d.responses) = r.actual_turns
       /\ Len(d.requests) = r.actual_turns + (IF r.pc \in LoopPcs THEN 1 ELSE 0)
       /\ \A i \in 1..Len(d.requests) :
            /\ d.requests[i].turn = i - 1
            /\ d.requests[i].to = (IF (i - 1) % 2 = 0 THEN r.a2 ELSE r.a1)
            /\ d.requests[i].input.message =
                 (IF i = 1 THEN d.initiator_message ELSE d.responses[i - 1])
            /\ d.requests[i].input.reminder =
                 (IF annotated THEN ReminderOf(i - 1, r.max_turns) ELSE "none")
       /\ \A i \in 1..Len(d.responses) :
            \A j \in 1..Len(d.responses[i]) : d.responses[i][j] # CONVERSATION_END_SIGNAL
       /\ r.pc = "done" =>
            \A i \in EventsOf(c) : world_events[i].turns = Len(d.responses)

\* C32: the responders of a run alternate, starting with agent2 (turn t is
\* answered by agent2 when t is even, by agent1 when t is odd); each turn
\* issues exactly one chat request; its input is the initiator message for
\* turn 0 and otherwise the previous response without the end marker; the
\* recorded turn count is the number of completed responses.
C32_AlternatingTurns == \A c \in Convs : DialogueOf(c, FALSE)

\* C32, with the input as the code builds it: the initiator message or the
\* previous clean response, followed by the mandatory-termination reminder
\* when at most 3 turns remain, else by the plain reminder when at most half
\* of the budget remains.
C32_AlternatingTurnsAnnotated == \A c \in Convs : DialogueOf(c, TRUE)

\* C32 witness: a run of six turns has ended on the end marker, having issued
\* requests without reminder, with the plain and with the final reminder
C32_Witness ==
  /\ conv[1].pc = "done" /\ conv[1].actual_turns = 6 /\ conv[1].finished
  /\ \E i, j, k \in 1..Len(dialogue[1].requests) :
       /\ dialogue[1].requests[i].input.reminder = "none"
       /\ dialogue[1].requests[j].input.reminder = "half"
       /\ dialogue[1].requests[k].input.reminder = "final"

RunsOf(a) ==
  {c \in Convs : conv[c].pc \in {"turn", "chat_reflect", "end1", "end2", "event"}
                  /\ a \in Participants(c)}

\* C33: an agent is a participant of at most one run_conversation call that is
\* under way; and whenever entity A is in_conversation with partner B, entity
\* B is in_conversation with partner A.
C33_OneRunPerAgent ==
  /\ \A a \in Agents : Cardinality(RunsOf(a)) <= 1
  /\ \A a \in DOMAIN entities, b \in DOMAIN entities :
       (entities[a].status = "in_conversation" /\ entities[a].current_conversation_with = b)
         => (entities[b].status = "in_conversation" /\ entities[b].current_conversation_with = a)

\* C35: while a run_conversation call is inside its turn loop, each of its two
\* participants has status in_conversation with the other one as partner.
C35_StatusHeldDuringRun ==
  \A c \in Convs :
    InLoop(c) =>
      /\ entities[conv[c].a1].status = "in_conversation"
      /\ entities[conv[c].a1].current_conversation_with = conv[c].a2
      /\ entities[conv[c].a2].status = "in_conversation"
      /\ entities[conv[c].a2].current_conversation_with = conv[c].a1

\* C37: an end_conversation call that follows an end_conversation call on the
\* same engine, with no chat and no reset between them, triggers no
\* reflection pass.
C37_EndConversationIdempotent ==
  [][\A a \in Agents :
       (/\ engine_log[a].op = "end_conversation"
        /\ engine_log'[a].calls = engine_log[a].calls + 1
        /\ engine_log'[a].op = "end_conversation")
         => ~engine_log'[a].triggered]_vars

\* C38: no run_conversation call has the same agent as both participants, and
\* no entity is in_conversation with itself as partner.
C38_DistinctParticipants ==
  /\ \A c \in Convs : conv[c].pc \notin {"init", "failed"} => conv[c].a1 # conv[c].a2
  /\ \A a \in DOMAIN entities :
       ~(entities[a].status = "in_conversation" /\ entities[a].current_conversation_with = a)

\* C34: every agent whose status is in_conversation eventually has another
\* status, and the interrupt events of a run that has returned or raised do
\* not stay registered, when every generation call eventually returns or fails.
C34_ConversationEnds ==
  /\ \A a \in Agents :
       (entities[a].status = "in_conversation") ~> (entities[a].status # "in_conversation")
  /\ \A c \in Convs :
       (conv[c].pc \in {"done", "failed"})
         ~> (\A a \in DOMAIN interrupt_events : interrupt_events[a][1] # c)

====
